---------------------------- MODULE Spec2Model ----------------------------
(***************************************************************************)
(* State-machine model of telematrix-pro's core:                           *)
(*   - Inviter.invite_users / _get_user_id / _invite_user                  *)
(*       (src/src/core/inviter.py)                                         *)
(*   - AsyncManager.start_client / disconnect / _save_session_string       *)
(*       (src/src/core/async_manager.py), called by                        *)
(*       MainApp.authenticate_account (src/main.py)                        *)
(*   - Parser.parse_chat_participants (src/src/core/parser.py)             *)
(*                                                                         *)
(* Every coroutine is cut at its awaits: one action is the code between    *)
(* two suspension points together with the answer of the awaited call.     *)
(* The protocol client (Telethon) and sqlite are the environment: each     *)
(* call answers with one of the results or exceptions the code handles.    *)
(***************************************************************************)
EXTENDS Integers, Sequences, FiniteSets, TLC

VARIABLES
    \* ---- Inviter.invite_users -------------------------------------------
    ipc,            \* position of the invite_users coroutine
    user_list,      \* the targets: a sequence of "Username" / "NumericId"
    index,          \* enumerate(user_list, 1) cursor
    stats,          \* self.stats
    invites,        \* rows of table invites, in insertion order
    iconnected,     \* client.is_connected() of the run's client
    chat_entity,    \* "resolved" once _get_chat_entity returned the chat
    responses,      \* answers of the add calls issued for the current target
    wait_time,      \* e.seconds of the FloodWaitError of the current target
    slept,          \* seconds slept in the FloodWait handler, current target
    result,         \* what _invite_user returned for the current target
    nUnresolved,    \* targets for which _get_user_id returned None
    nWriteFail,     \* database.execute calls of the run that raised
    nLost,          \* targets whose two INSERT attempts both failed
    scenarioB,      \* leading targets that followed scenario B of the spec
    returned,       \* the dict invite_users returned ("none" while running)
    \* ---- AsyncManager.start_client + MainApp.authenticate_account --------
    apc,            \* position of authenticate_account / start_client
    aconnected,     \* client.is_connected() of the login client
    session_string, \* accounts.session_string of the phone's row
    session0,       \* its value when the login started
    password_callback, \* TRUE iff a password_callback was passed
    authorized,     \* answer of client.is_user_authorized() ("none" before)
    code_requests,  \* answers of the client.send_code_request calls
    code_wait,      \* e.seconds of the FloodWaitError on the code request
    code_slept,     \* seconds slept in the inner FloodWait handler
    outer_wait,     \* e.seconds of the FloodWaitError the outer handler got
    outer_slept,    \* seconds slept in the outer FloodWait handler
    code_asked,     \* invocations of code_callback
    password_asked, \* invocations of password_callback
    sign_ins,       \* answers of client.sign_in(phone, code)
    password_sign_ins, \* answers of client.sign_in(password=...)
    session_writes, \* _save_session_string calls that reached the store
    fault,          \* exception class that ended start_client ("none")
    success,        \* what start_client gave its caller ("pending" before)
    \* ---- Parser.parse_chat_participants ----------------------------------
    spc,            \* position of the parse_chat_participants coroutine
    limit,          \* the limit argument
    members,        \* number of participants of the source chat
    offset,         \* offset
    parsed_count,   \* parsed_count
    batch,          \* len(participants) of the batch being processed
    sconnected,     \* client.is_connected() of the run's client
    fetch_offset,   \* offset passed to the last get_participants call
    batch_fetches,  \* get_participants calls made for the current batch
    batch_throttles, \* FloodWaitErrors they raised
    batch_waited,   \* seconds those FloodWaitErrors mandated
    batch_slept,    \* seconds slept in the FloodWait handler for the batch
    scrape_wait,    \* e.seconds of the FloodWaitError being handled, else 0
    throttles,      \* FloodWaitErrors of the whole run
    filters,        \* whether the filters argument sets any filter
    parsed_users,   \* len(parsed_users), the list the run returns
    save_calls,     \* calls of _save_parsed_user made by the run
    requested,      \* limit passed to the last get_participants call
    page_requests,  \* get_participants calls of the whole run
    info_failed,    \* whether a member's get_user_info failed in the run
    stop,           \* why the run left the paging loop
    fetched,        \* members returned by the get_participants calls so far
    \* ---- Parser._save_parsed_user, table parsed_users -------------------
    parsed_table,   \* rows of table parsed_users, in insertion order
    save_pc,        \* per run: position inside _save_parsed_user
    save_args,      \* per run: the arguments of its _save_parsed_user call
    existing,       \* per run: whether its SELECT found a row
    save_clock,     \* datetime.now(), counted in calls of _save_parsed_user
    last_save,      \* the last call that ended, what it did and the
                    \* profiles its key had in the table before it wrote
    \* ---- InvitingWidget.stop_inviting, InvitingThread -------------------
    stop_requested, \* InvitingThread._stop_requested
    killed_at,      \* where invite_users was when the thread was terminated
    progress_emits, \* progress_signal.emit calls of the InvitingThread
    progress_logs,  \* "Прогресс: ..." lines logged by invite_users, which
                    \* the thread's LogHandler hands to the widget
    \* ---- Parser.parse_chat_participants, the loop over one batch --------
    mpc,            \* position of the loop over the participants of a batch
    mfilters,       \* the filters argument
    mlimit,         \* the limit argument
    mbatch,         \* len(participants)
    mpos,           \* position of the participant being visited, from 1
    scraped,        \* parsed_users: position and status of the members kept
    member_rows,    \* positions of the members with a row in parsed_users
    \* ---- Inviter.stats under two invite_users calls on one Inviter -------
    dicts,          \* the dict objects made for self.stats, in order
    self_stats,     \* which of them self.stats refers to
    run_pc,         \* per call: position of invite_users
    run_targets,    \* per call: len(user_list)
    run_index,      \* per call: index of the target at hand
    own_stats,      \* per call: the increments the call itself has made
    run_returned,   \* per call: the dict object it returned (0: not yet)
    \* ---- AccountManager, table accounts ----------------------------------
    accounts,       \* rows of table accounts, in insertion order
    last_rowid,     \* the AUTOINCREMENT counter of table accounts
    account_call,   \* the last call of the AccountManager and its arguments
    account_result, \* what the call returned or raised
    accounts_before \* table accounts when the call was made

inviteVars == <<ipc, user_list, index, stats, invites, iconnected, chat_entity,
                responses,
                wait_time, slept, result, nUnresolved, nWriteFail, nLost,
                scenarioB, returned>>

authVars == <<apc, aconnected, session_string, session0, password_callback,
              authorized, code_requests, code_wait, code_slept, outer_wait,
              outer_slept, code_asked, password_asked, sign_ins, password_sign_ins,
              session_writes, fault, success>>

scrapeVars == <<spc, limit, members, offset, parsed_count, batch, sconnected,
                fetch_offset, batch_fetches, batch_throttles, batch_waited,
                batch_slept, scrape_wait, throttles, filters, parsed_users,
                save_calls, requested, page_requests, info_failed, stop,
                fetched>>

saveVars == <<parsed_table, save_pc, save_args, existing, save_clock,
              last_save>>

widgetVars == <<stop_requested, killed_at, progress_emits, progress_logs>>

accountVars == <<accounts, last_rowid, account_call, account_result,
                 accounts_before>>

memberVars == <<mpc, mfilters, mlimit, mbatch, mpos, scraped, member_rows>>

sharedVars == <<dicts, self_stats, run_pc, run_targets, run_index, own_stats,
                run_returned>>

\* the state outside the invite run, the login and the scrape run
restVars == <<saveVars, widgetVars, accountVars, memberVars, sharedVars>>

vars == <<inviteVars, authVars, scrapeVars, restVars>>

-----------------------------------------------------------------------------
(* Bounds of the model *)

\* longest target list of an invite run
MaxTargets == 3

\* largest number of seconds a FloodWaitError carries
MaxWait == 2

\* most FloodWaitErrors the protocol raises during one scrape run
MaxThrottles == 2

\* most full pages of participants a source chat holds
MaxPages == 2

\* most calls of _save_parsed_user
MaxSaves == 4

\* most rows ever inserted into table accounts
MaxAccounts == 3

\* most participants of the batch whose members are followed one by one
MaxMembers == 2

\* longest user_list of an invite_users call that shares its Inviter
MaxRunTargets == 2

-----------------------------------------------------------------------------
(* Shared helpers *)

\* a FloodWaitError's seconds
Waits == 1..MaxWait

\* Disconnect with the client.disconnect() call left out
DisconnectSkipped(connected) == connected

\* AsyncManager.disconnect: client.disconnect() when client.is_connected()
Disconnect(connected) == IF connected THEN FALSE ELSE connected

-----------------------------------------------------------------------------
(* Inviter *)

\* Inviter.__init__ / the reset at the top of invite_users
ZeroStats == [success |-> 0, error |-> 0, skipped |-> 0]

\* Bump that leaves the counter as it is
BumpNothing(s, counter) == s

\* self.stats[counter] += 1
Bump(s, counter) == [s EXCEPT ![counter] = @ + 1]

\* answers of client(AddChatUserRequest) / client(InviteToChannelRequest)
AddResponses == {"ok", "UserPrivacyRestricted", "UserAlreadyParticipant",
                 "ChatAdminRequired", "FloodWait", "ChatNotModified",
                 "PeerIdInvalid", "Other"}

\* InviteResult with the ChatAdminRequiredError clause returning a skip
InviteResultAdminSkipped(resp) ==
    CASE resp = "ok" -> "success"
      [] resp = "UserPrivacyRestricted" -> "skipped"
      [] resp = "UserAlreadyParticipant" -> "skipped"
      [] resp = "ChatAdminRequired" -> "skipped"
      [] resp = "ChatNotModified" -> "skipped"
      [] OTHER -> "error"

\* InviteResult with the ChatNotModifiedError clause missing, so that the
\* answer falls to "except Exception"
InviteResultNotModifiedError(resp) ==
    CASE resp = "ok" -> "success"
      [] resp = "UserPrivacyRestricted" -> "skipped"
      [] resp = "UserAlreadyParticipant" -> "skipped"
      [] OTHER -> "error"

\* InviteResult with the UserAlreadyParticipantError clause missing, so that
\* the answer falls to "except Exception"
InviteResultAlreadyError(resp) ==
    CASE resp = "ok" -> "success"
      [] resp = "UserPrivacyRestricted" -> "skipped"
      [] resp = "ChatNotModified" -> "skipped"
      [] OTHER -> "error"

\* _invite_user: the dict returned for the answer of the first add call
\* (every except clause but FloodWaitError, which retries)
InviteResult(resp) ==
    CASE resp = "ok" -> "success"
      [] resp = "UserPrivacyRestricted" -> "skipped"
      [] resp = "UserAlreadyParticipant" -> "skipped"
      [] resp = "ChatAdminRequired" -> "error"
      [] resp = "ChatNotModified" -> "skipped"
      [] resp = "PeerIdInvalid" -> "error"
      [] OTHER -> "error"

\* _invite_user: the dict returned for the answer of the call repeated after
\* the FloodWait sleep (except Exception as retry_error)
RetryResult(resp) == IF resp = "ok" THEN "success" ELSE "error"

\* Insert that puts the row before the rows of the table
InsertFirst(rows, row) == <<row>> \o rows

\* Insert without the commit: the row never reaches the table
InsertLost(rows, row) == rows

\* Database.execute of an INSERT that does not raise: the row is appended
Insert(rows, row) == Append(rows, row)

\* the row INSERTed into invites for target i
InviteRow(i, status) == [user_id |-> i, status |-> status]

\* one more target of scenario B matched: 1 added, 2 already a participant,
\* 3 unresolved, every store write succeeding
ScenarioStep(sc, i, what) ==
    IF sc = i - 1 /\ i <= 3
          /\ what = <<"added", "already", "unresolved">>[i]
    THEN i ELSE -1

\* invite_users: top of the function up to await client.connect()
InviteBegin ==
    /\ ipc = "begin"
    /\ stats' = ZeroStats
    /\ \E setup \in {"ok", "no_account", "no_client", "fault"} :
         IF setup = "ok"
         THEN /\ ipc' = "connect"
              /\ UNCHANGED returned
         ELSE /\ ipc' = "done"
              /\ returned' = ZeroStats
    /\ UNCHANGED <<user_list, chat_entity, index, invites, iconnected, responses,
                   wait_time, slept, result, nUnresolved, nWriteFail, nLost,
                   scenarioB>>
    /\ UNCHANGED <<authVars, scrapeVars, restVars>>

\* await client.connect(); a fault goes to the outer except and the finally
InviteConnect ==
    /\ ipc = "connect"
    /\ \E ok \in BOOLEAN :
         IF ok
         THEN /\ iconnected' = TRUE
              /\ ipc' = "check_auth"
              /\ UNCHANGED returned
         ELSE /\ iconnected' = Disconnect(iconnected)
              /\ ipc' = "done"
              /\ returned' = stats
    /\ UNCHANGED <<user_list, chat_entity, index, stats, invites, responses, wait_time,
                   slept, result, nUnresolved, nWriteFail, nLost, scenarioB>>
    /\ UNCHANGED <<authVars, scrapeVars, restVars>>

\* await client.is_user_authorized()
InviteCheckAuth ==
    /\ ipc = "check_auth"
    /\ \E answer \in {"yes", "no", "fault"} :
         IF answer = "yes"
         THEN /\ ipc' = "get_chat"
              /\ UNCHANGED <<iconnected, returned>>
         ELSE /\ iconnected' = Disconnect(iconnected)
              /\ ipc' = "done"
              /\ returned' = stats
    /\ UNCHANGED <<user_list, chat_entity, index, stats, invites, responses, wait_time,
                   slept, result, nUnresolved, nWriteFail, nLost, scenarioB>>
    /\ UNCHANGED <<authVars, scrapeVars, restVars>>

\* await self._get_chat_entity(client, chat_link): None on every exception
InviteGetChat ==
    /\ ipc = "get_chat"
    /\ \E found \in BOOLEAN :
         IF found
         THEN /\ ipc' = IF Len(user_list) > 0 THEN "resolve" ELSE "finish"
              /\ chat_entity' = "resolved"
              /\ UNCHANGED <<iconnected, returned>>
         ELSE /\ iconnected' = Disconnect(iconnected)
              /\ ipc' = "done"
              /\ returned' = stats
              /\ UNCHANGED chat_entity
    /\ UNCHANGED <<user_list, index, stats, invites, responses, wait_time,
                   slept, result, nUnresolved, nWriteFail, nLost, scenarioB>>
    /\ UNCHANGED <<authVars, scrapeVars, restVars>>

\* NextTarget that sleeps the delay before the next target
NextTargetDelayed ==
    /\ index' = index
    /\ ipc' = "delay"

\* the for loop's step to the next target without the delay
\* (continue, or the end of the except handler)
NextTarget ==
    /\ index' = index + 1
    /\ ipc' = IF index < Len(user_list) THEN "resolve" ELSE "finish"

\* user_id = await self._get_user_id(client, user_identifier), and
\* "if not user_id: skipped += 1; continue"
GetUserId ==
    /\ ipc = "resolve"
    /\ responses' = <<>>
    /\ wait_time' = 0
    /\ slept' = 0
    /\ result' = "none"
    /\ \E resolved \in BOOLEAN :
         IF user_list[index] = "NumericId" \/ resolved
         THEN /\ ipc' = "input_user"
              /\ UNCHANGED <<index, stats, nUnresolved, scenarioB>>
         ELSE /\ stats' = Bump(stats, "skipped")
              /\ nUnresolved' = nUnresolved + 1
              /\ scenarioB' = ScenarioStep(scenarioB, index, "unresolved")
              /\ NextTarget
    /\ UNCHANGED <<user_list, chat_entity, invites, iconnected, nWriteFail, nLost,
                   returned>>
    /\ UNCHANGED <<authVars, scrapeVars, restVars>>

\* the except handler of the loop body when the identifier is an int:
\* error += 1 and the second INSERT, with no await in between
ExceptNumeric(st) ==
    /\ stats' = Bump(st, "error")
    /\ \E db2 \in BOOLEAN :
         IF db2
         THEN /\ invites' = Insert(invites, InviteRow(index, "error"))
              /\ nWriteFail' = nWriteFail + 1
              /\ UNCHANGED nLost
         ELSE /\ nWriteFail' = nWriteFail + 2
              /\ nLost' = nLost + 1
              /\ UNCHANGED invites
    /\ NextTarget

\* invite_users after _invite_user returned: count the result, INSERT the
\* row and log the progress, then either the delay or the except handler
SaveResult(res) ==
    /\ result' = res
    /\ \E db1 \in BOOLEAN :
         IF db1
         THEN /\ stats' = Bump(stats, res)
              /\ invites' = Insert(invites, InviteRow(index, res))
              /\ progress_logs' = progress_logs + 1
              /\ UNCHANGED <<nWriteFail, nLost>>
              /\ IF index < Len(user_list)
                 THEN ipc' = "delay" /\ UNCHANGED index
                 ELSE NextTarget
         ELSE /\ UNCHANGED progress_logs
              /\ IF user_list[index] = "NumericId"
                 THEN ExceptNumeric(Bump(stats, res))
                 ELSE /\ stats' = Bump(Bump(stats, res), "error")
                      /\ nWriteFail' = nWriteFail + 1
                      /\ ipc' = "except_resolve"
                      /\ UNCHANGED <<index, invites, nLost>>

\* the scenario B monitor after the add step of target i; resps are the
\* answers of the add calls made for it
ScenarioAfter(resps) ==
    ScenarioStep(scenarioB, index,
                 IF nWriteFail' # nWriteFail THEN "write failed"
                 ELSE IF resps # <<>> /\ resps[Len(resps)] = "ok" THEN "added"
                 ELSE IF resps = <<"UserAlreadyParticipant">> THEN "already"
                 ELSE "other")

\* GetInputUser that reports a failed lookup as skipped
GetInputUserSkipped ==
    /\ ipc = "input_user"
    /\ \E ok \in BOOLEAN :
         IF ok
         THEN /\ ipc' = "add"
              /\ UNCHANGED <<index, stats, invites, result, nWriteFail,
                             nLost, scenarioB, progress_logs>>
         ELSE /\ SaveResult("skipped")
              /\ scenarioB' = ScenarioAfter(responses)
    /\ UNCHANGED <<user_list, chat_entity, iconnected, responses, wait_time, slept,
                   nUnresolved, returned>>
    /\ UNCHANGED <<authVars, scrapeVars, saveVars, accountVars, memberVars,
                   sharedVars,
                   stop_requested, killed_at, progress_emits>>

\* _invite_user: await client.get_entity(user_id) and get_input_entity
GetInputUser ==
    /\ ipc = "input_user"
    /\ \E ok \in BOOLEAN :
         IF ok
         THEN /\ ipc' = "add"
              /\ UNCHANGED <<index, stats, invites, result, nWriteFail,
                             nLost, scenarioB, progress_logs>>
         ELSE /\ SaveResult("error")
              /\ scenarioB' = ScenarioAfter(responses)
    /\ UNCHANGED <<user_list, chat_entity, iconnected, responses, wait_time, slept,
                   nUnresolved, returned>>
    /\ UNCHANGED <<authVars, scrapeVars, saveVars, accountVars, memberVars,
                   sharedVars,
                   stop_requested, killed_at, progress_emits>>

\* _invite_user: the first add call and its except clauses
AddUser ==
    /\ ipc = "add"
    /\ \E resp \in AddResponses :
         /\ responses' = Append(responses, resp)
         /\ IF resp = "FloodWait"
            THEN /\ \E w \in Waits : wait_time' = w
                 /\ ipc' = "flood_sleep"
                 /\ UNCHANGED <<index, stats, invites, result, nWriteFail,
                                nLost, scenarioB, progress_logs>>
            ELSE /\ SaveResult(InviteResult(resp))
                 /\ scenarioB' = ScenarioAfter(responses')
                 /\ UNCHANGED wait_time
    /\ UNCHANGED <<user_list, chat_entity, iconnected, slept, nUnresolved, returned>>
    /\ UNCHANGED <<authVars, scrapeVars, saveVars, accountVars, memberVars,
                   sharedVars,
                   stop_requested, killed_at, progress_emits>>

\* FloodSleep without the sleep: the add call is repeated at once
FloodSleepSkipped ==
    /\ ipc = "flood_sleep"
    /\ ipc' = "retry"
    /\ UNCHANGED <<user_list, chat_entity, index, stats, invites, iconnected,
                   responses, wait_time, slept, result, nUnresolved,
                   nWriteFail, nLost, scenarioB, returned>>
    /\ UNCHANGED <<authVars, scrapeVars, restVars>>

\* _invite_user: await asyncio.sleep(wait_time) in the FloodWait handler
FloodSleep ==
    /\ ipc = "flood_sleep"
    /\ slept' = slept + wait_time
    /\ ipc' = "retry"
    /\ UNCHANGED <<user_list, chat_entity, index, stats, invites, iconnected, responses,
                   wait_time, result, nUnresolved, nWriteFail, nLost,
                   scenarioB, returned>>
    /\ UNCHANGED <<authVars, scrapeVars, restVars>>

\* _invite_user: the add call repeated after the sleep
AddUserRetry ==
    /\ ipc = "retry"
    /\ \E resp \in AddResponses :
         /\ responses' = Append(responses, resp)
         /\ SaveResult(RetryResult(resp))
         /\ scenarioB' = ScenarioAfter(responses')
    /\ UNCHANGED <<user_list, chat_entity, iconnected, wait_time, slept, nUnresolved,
                   returned>>
    /\ UNCHANGED <<authVars, scrapeVars, saveVars, accountVars, memberVars,
                   sharedVars,
                   stop_requested, killed_at, progress_emits>>

\* the except handler of the loop body for a username: the identifier is
\* resolved again (await) and the row INSERTed; user_id None violates
\* invites.user_id NOT NULL
ExceptResolve ==
    /\ ipc = "except_resolve"
    /\ \E resolved \in BOOLEAN, db2 \in BOOLEAN :
         IF resolved /\ db2
         THEN /\ invites' = Insert(invites, InviteRow(index, "error"))
              /\ UNCHANGED <<nWriteFail, nLost>>
         ELSE /\ nWriteFail' = nWriteFail + 1
              /\ nLost' = nLost + 1
              /\ UNCHANGED invites
    /\ NextTarget
    /\ UNCHANGED <<user_list, chat_entity, stats, iconnected, responses, wait_time, slept,
                   result, nUnresolved, scenarioB, returned>>
    /\ UNCHANGED <<authVars, scrapeVars, restVars>>

\* await asyncio.sleep(delay) between two targets
ItemDelay ==
    /\ ipc = "delay"
    /\ NextTarget
    /\ UNCHANGED <<user_list, chat_entity, stats, invites, iconnected, responses,
                   wait_time, slept, result, nUnresolved, nWriteFail, nLost,
                   scenarioB, returned>>
    /\ UNCHANGED <<authVars, scrapeVars, restVars>>

\* return self.stats, and the finally clause
InviteReturn ==
    /\ ipc = "finish"
    /\ returned' = stats
    /\ iconnected' = Disconnect(iconnected)
    /\ ipc' = "done"
    /\ UNCHANGED <<user_list, chat_entity, index, stats, invites, responses, wait_time,
                   slept, result, nUnresolved, nWriteFail, nLost, scenarioB>>
    /\ UNCHANGED <<authVars, scrapeVars, restVars>>

-----------------------------------------------------------------------------
(* Parser.parse_chat_participants *)

\* the page size of get_participants and the end-of-membership threshold
BatchSize == 100

Min(a, b) == IF a < b THEN a ELSE b

\* sizes of the source chats: empty, a few members, full pages, full pages
\* and a rest
ChatSizes ==
    {0, 3} \cup {k * BatchSize : k \in 1..MaxPages}
           \cup {k * BatchSize + 20 : k \in 1..MaxPages}

\* the limit argument: below, at and above the page size
Limits == {1, 5, BatchSize, BatchSize + 50}

\* client.get_participants(chat, limit=n, offset=o): the members from o on,
\* at most n of them
Participants(n, o) == Min(n, IF members > o THEN members - o ELSE 0)

\* the arguments of the run and the membership of the chat
scrapeArgs == <<limit, members, filters>>

\* the history of the fetches of the current batch
batchVars == <<fetch_offset, batch_fetches, batch_throttles, batch_waited,
               batch_slept, scrape_wait, throttles>>

\* "limit=min(100, limit - parsed_count)": the size asked of a page
Requested(count) == Min(BatchSize, limit - count)

\* "if parsed_count >= limit: break" in the for loop: the members that may
\* still be accepted
Room(count) == IF limit > count THEN limit - count ELSE 0

\* Counted without the increment: parsed_count stays what it was
CountedNever(count, accepted) == count

\* "parsed_count += 1" for every accepted member
Counted(count, accepted) == count + accepted

\* no scrape run
ScrapeIdle ==
    /\ spc = "idle"
    /\ limit = 0
    /\ members = 0
    /\ filters = FALSE
    /\ offset = 0
    /\ parsed_count = 0
    /\ parsed_users = 0
    /\ save_calls = 0
    /\ batch = 0
    /\ requested = 0
    /\ page_requests = 0
    /\ info_failed = FALSE
    /\ stop = "none"
    /\ fetched = 0
    /\ sconnected = FALSE
    /\ fetch_offset = -1
    /\ batch_fetches = 0
    /\ batch_throttles = 0
    /\ batch_waited = 0
    /\ batch_slept = 0
    /\ scrape_wait = 0
    /\ throttles = 0

\* ScrapeReturn without the finally clause: the client stays as it is
ScrapeReturnNoFinally ==
    /\ UNCHANGED sconnected
    /\ spc' = "done"

\* parse_chat_participants returns parsed_users: the finally clause
\* disconnects
ScrapeReturn ==
    /\ sconnected' = Disconnect(sconnected)
    /\ spc' = "done"

\* create_client and await client.connect()
ScrapeBegin ==
    /\ spc = "begin"
    /\ \E setup \in {"ok", "no_client", "fault"} :
         IF setup = "ok"
         THEN /\ sconnected' = TRUE
              /\ spc' = "check_auth"
              /\ UNCHANGED stop
         ELSE /\ ScrapeReturn
              /\ stop' = "setup"
    /\ UNCHANGED <<scrapeArgs, batchVars, offset, parsed_count, parsed_users,
                   save_calls, batch, requested, page_requests, info_failed>>
    /\ UNCHANGED fetched
    /\ UNCHANGED <<inviteVars, authVars, restVars>>

\* await client.is_user_authorized()
ScrapeCheckAuth ==
    /\ spc = "check_auth"
    /\ \E answer \in {"yes", "no", "fault"} :
         IF answer = "yes"
         THEN /\ spc' = "resolve_chat"
              /\ UNCHANGED <<sconnected, stop>>
         ELSE /\ ScrapeReturn
              /\ stop' = "setup"
    /\ UNCHANGED <<scrapeArgs, batchVars, offset, parsed_count, parsed_users,
                   save_calls, batch, requested, page_requests, info_failed>>
    /\ UNCHANGED fetched
    /\ UNCHANGED <<inviteVars, authVars, restVars>>

\* the while loop's test: "while parsed_count < limit"
LoopOrReturn(count) ==
    IF count < limit
    THEN /\ spc' = "fetch"
         /\ UNCHANGED <<sconnected, stop>>
    ELSE /\ ScrapeReturn
         /\ stop' = "limit"

\* await self._resolve_chat_link(client, chat_link); offset = 0,
\* parsed_count = 0 and the first test of the while loop
ScrapeResolveChat ==
    /\ spc = "resolve_chat"
    /\ \E found \in BOOLEAN :
         IF found
         THEN LoopOrReturn(parsed_count)
         ELSE /\ ScrapeReturn
              /\ stop' = "setup"
    /\ UNCHANGED <<scrapeArgs, batchVars, offset, parsed_count, parsed_users,
                   save_calls, batch, requested, page_requests, info_failed>>
    /\ UNCHANGED fetched
    /\ UNCHANGED <<inviteVars, authVars, restVars>>

\* await client.get_participants(chat_entity,
\*     limit=min(100, limit - parsed_count), offset=offset) and the except
\* clauses of the while body
ScrapeFetch ==
    /\ spc = "fetch"
    /\ fetch_offset' = offset
    /\ batch_fetches' = batch_fetches + 1
    /\ page_requests' = page_requests + 1
    /\ requested' = Requested(parsed_count)
    /\ \E answer \in {"participants", "FloodWait", "ChatAdminRequired",
                      "Other"} :
         CASE answer = "participants" ->
                /\ batch' = Participants(requested', offset)
                /\ fetched' = fetched + batch'
                /\ IF batch' = 0
                   THEN /\ ScrapeReturn
                        /\ stop' = "empty"
                   ELSE /\ spc' = "process"
                        /\ UNCHANGED <<sconnected, stop>>
                /\ UNCHANGED <<batch_throttles, batch_waited, scrape_wait,
                               throttles>>
           [] answer = "FloodWait" ->
                /\ throttles < MaxThrottles
                /\ throttles' = throttles + 1
                /\ batch_throttles' = batch_throttles + 1
                /\ \E w \in Waits :
                     /\ scrape_wait' = w
                     /\ batch_waited' = batch_waited + w
                /\ spc' = "flood_sleep"
                /\ UNCHANGED <<batch, sconnected, stop, fetched>>
           [] OTHER ->
                /\ ScrapeReturn
                /\ stop' = "fault"
                /\ UNCHANGED <<batch, batch_throttles, batch_waited,
                               scrape_wait, throttles, fetched>>
    /\ UNCHANGED <<scrapeArgs, offset, parsed_count, parsed_users, save_calls,
                   batch_slept, info_failed>>
    /\ UNCHANGED <<inviteVars, authVars, restVars>>

\* ScrapeFloodSleep without the sleep: the batch is fetched again at once
ScrapeFloodSleepSkipped ==
    /\ spc = "flood_sleep"
    /\ scrape_wait' = 0
    /\ LoopOrReturn(parsed_count)
    /\ UNCHANGED <<scrapeArgs, fetch_offset, batch_fetches, batch_throttles,
                   batch_waited, batch_slept, throttles, offset, parsed_count, parsed_users,
                   save_calls, batch, requested, page_requests, info_failed>>
    /\ UNCHANGED fetched
    /\ UNCHANGED <<inviteVars, authVars, restVars>>

\* ScrapeFloodSleep that moves on to the next page after the sleep
ScrapeFloodSleepNextPage ==
    /\ spc = "flood_sleep"
    /\ batch_slept' = batch_slept + scrape_wait
    /\ scrape_wait' = 0
    /\ offset' = offset + requested
    /\ LoopOrReturn(parsed_count)
    /\ UNCHANGED <<scrapeArgs, parsed_count, parsed_users, save_calls,
                   batch, requested, page_requests, info_failed, fetch_offset,
                   batch_fetches, batch_throttles, batch_waited, throttles>>
    /\ UNCHANGED fetched
    /\ UNCHANGED <<inviteVars, authVars, restVars>>

\* ScrapeFloodSleep whose sleep never ends
ScrapeFloodSleepForever ==
    /\ spc = "flood_sleep"
    /\ UNCHANGED vars

\* except FloodWaitError: await asyncio.sleep(e.seconds); continue
ScrapeFloodSleep ==
    /\ spc = "flood_sleep"
    /\ batch_slept' = batch_slept + scrape_wait
    /\ scrape_wait' = 0
    /\ LoopOrReturn(parsed_count)
    /\ UNCHANGED <<scrapeArgs, offset, parsed_count, parsed_users, save_calls,
                   batch, requested, page_requests, info_failed, fetch_offset,
                   batch_fetches, batch_throttles, batch_waited, throttles>>
    /\ UNCHANGED fetched
    /\ UNCHANGED <<inviteVars, authVars, restVars>>

\* how many of n visited members are accepted: none, one, half of them, all
\* but one, or all
Accepts(n) == {0, 1, n \div 2, n - 1, n} \cap (0..n)

\* LastPage without the test: a short batch does not end the paging
LastPageNever(n) == FALSE

\* the test that ends the paging after a batch: "if len(participants) < 100"
LastPage(n) == n < BatchSize

\* the for loop over the batch: every participant visited before the limit
\* is reached is accepted (saved, appended and counted) or passed over,
\* because get_user_info gave nothing or raised, or because a filter
\* discarded the member; then offset += len(participants) and the
\* end-of-membership test
ScrapeProcess ==
    /\ spc = "process"
    /\ \E accepted \in Accepts(Min(batch, Room(parsed_count))),
          failed \in BOOLEAN :
         /\ failed => accepted < batch
         /\ accepted < Min(batch, Room(parsed_count)) => failed \/ filters
         /\ info_failed' = (info_failed \/ failed)
         /\ save_calls' = save_calls + accepted
         /\ parsed_users' = parsed_users + accepted
         /\ parsed_count' = Counted(parsed_count, accepted)
         /\ offset' = offset + batch
         /\ IF LastPage(batch)
            THEN /\ ScrapeReturn
                 /\ stop' = "short"
            ELSE LoopOrReturn(parsed_count')
    /\ batch_fetches' = 0
    /\ batch_throttles' = 0
    /\ batch_waited' = 0
    /\ batch_slept' = 0
    /\ UNCHANGED <<scrapeArgs, batch, requested, page_requests, fetch_offset,
                   scrape_wait, throttles>>
    /\ UNCHANGED fetched
    /\ UNCHANGED <<inviteVars, authVars, restVars>>

-----------------------------------------------------------------------------
(* Parser._save_parsed_user and table parsed_users *)

\* the scrape runs that save members
Runs == {1, 2}

\* user ids and chat ids of the saved members
UserIds == {"u1", "u2"}
ChatIds == {"c1", "c2"}

\* username, first_name, last_name and phone of a member as fetched: two
\* versions of a profile that differ in every field
Profiles ==
    {[username |-> "name_a", first_name |-> "first_a",
      last_name |-> "last_a", phone |-> "phone_a"],
     [username |-> "name_b", first_name |-> "first_b",
      last_name |-> "last_b", phone |-> "phone_b"]}

\* the arguments of a run that is not inside _save_parsed_user
NoArgs == [user_id |-> "none", chat_id |-> "none"]

\* the rows of a table matched by "WHERE user_id = ? AND chat_id = ?"
RowsWith(table, u, c) ==
    {i \in DOMAIN table : table[i].user_id = u /\ table[i].chat_id = c}

\* SelectExisting that never finds a row
SelectAlwaysEmpty(table, u, c) == FALSE

\* "SELECT id FROM parsed_users WHERE user_id = ? AND chat_id = ? LIMIT 1"
\* and "if existing"
SelectExisting(table, u, c) == RowsWith(table, u, c) # {}

\* "UPDATE parsed_users SET username = ?, first_name = ?, last_name = ?,
\* phone = ?, parsed_at = ? WHERE user_id = ? AND chat_id = ?"
UpdateRows(table, u, c, profile, at) ==
    [i \in DOMAIN table |->
        IF i \in RowsWith(table, u, c)
        THEN [table[i] EXCEPT !.profile = profile, !.parsed_at = at]
        ELSE table[i]]

\* "INSERT INTO parsed_users (user_id, username, first_name, last_name,
\* phone, chat_id, parsed_at) VALUES (...)"
InsertRow(table, u, c, profile, at) ==
    Append(table, [user_id |-> u, chat_id |-> c, profile |-> profile,
                   parsed_at |-> at])

\* no _save_parsed_user call yet, the table empty
SaveIdle ==
    /\ parsed_table = <<>>
    /\ save_pc = [w \in Runs |-> "idle"]
    /\ save_args = [w \in Runs |-> NoArgs]
    /\ existing = [w \in Runs |-> FALSE]
    /\ save_clock = 0
    /\ last_save = [kind |-> "none"]

\* run w calls _save_parsed_user: the SELECT; a fault of the store is logged
\* by the except clause and the call ends
SaveCheck(w) ==
    /\ save_pc[w] = "idle"
    /\ save_clock < MaxSaves
    /\ save_clock' = save_clock + 1
    /\ \E u \in UserIds, c \in ChatIds, profile \in Profiles,
          answer \in {"rows", "fault"} :
         IF answer = "rows"
         THEN /\ save_args' = [save_args EXCEPT ![w] =
                                 [user_id |-> u, chat_id |-> c,
                                  profile |-> profile]]
              /\ existing' = [existing EXCEPT ![w] =
                                 SelectExisting(parsed_table, u, c)]
              /\ save_pc' = [save_pc EXCEPT ![w] = "checked"]
              /\ UNCHANGED last_save
         ELSE /\ last_save' = [kind |-> "failed", run |-> w, user_id |-> u,
                               chat_id |-> c, profile |-> profile,
                               at |-> save_clock', found |-> {}]
              /\ UNCHANGED <<save_args, existing, save_pc>>
    /\ UNCHANGED parsed_table
    /\ UNCHANGED <<inviteVars, authVars, scrapeVars, widgetVars,
                   accountVars, memberVars,
                   sharedVars>>

\* run w goes on after its SELECT: the UPDATE if a row was found, else the
\* INSERT, stamped with datetime.now(); a fault of the store is logged by
\* the except clause
SaveWrite(w) ==
    /\ save_pc[w] = "checked"
    /\ \E answer \in {"ok", "fault"} :
         LET a == save_args[w]
             kind == IF answer = "fault" THEN "failed"
                     ELSE IF existing[w] THEN "update" ELSE "insert"
         IN  /\ parsed_table' =
                   CASE kind = "update" ->
                          UpdateRows(parsed_table, a.user_id, a.chat_id,
                                     a.profile, save_clock)
                     [] kind = "insert" ->
                          InsertRow(parsed_table, a.user_id, a.chat_id,
                                    a.profile, save_clock)
                     [] OTHER -> parsed_table
             /\ last_save' = [kind |-> kind, run |-> w,
                              user_id |-> a.user_id, chat_id |-> a.chat_id,
                              profile |-> a.profile, at |-> save_clock,
                              found |-> {parsed_table[i].profile :
                                           i \in RowsWith(parsed_table,
                                                          a.user_id,
                                                          a.chat_id)}]
    /\ save_pc' = [save_pc EXCEPT ![w] = "idle"]
    /\ save_args' = [save_args EXCEPT ![w] = NoArgs]
    /\ existing' = [existing EXCEPT ![w] = FALSE]
    /\ UNCHANGED save_clock
    /\ UNCHANGED <<inviteVars, authVars, scrapeVars, widgetVars,
                   accountVars, memberVars,
                   sharedVars>>

-----------------------------------------------------------------------------
(* Parser.parse_chat_participants: the loop over the participants of a batch *)

\* hours since was_online of a member whose status is UserStatusOffline:
\* now, 7 days, 7 days 23 hours, 8 days, 30 days
Ages == {0, 7 * 24, 7 * 24 + 23, 8 * 24, 30 * 24}

\* the status classes without a was_online attribute; "NoneType" is a
\* participant whose status is None
CoarseStatuses == {"NoneType", "UserStatusEmpty", "UserStatusOnline",
                   "UserStatusRecently", "UserStatusLastWeek",
                   "UserStatusLastMonth", "UserStatusLongTimeAgo"}

\* participant.status: its class name and, for UserStatusOffline, the
\* hours since was_online (-1: no such attribute)
Statuses ==
    {[kind |-> k, was_online |-> -1] : k \in CoarseStatuses}
    \cup {[kind |-> "UserStatusOffline", was_online |-> h] : h \in Ages}

\* what get_user_info returns about a member, as far as the filters look
UserInfos == [username : BOOLEAN, is_bot : BOOLEAN, is_premium : BOOLEAN]

\* the filters argument
Filters == [only_usernames : BOOLEAN, exclude_bots : BOOLEAN,
            exclude_premium : BOOLEAN, only_active : BOOLEAN]

\* (datetime.now(was_online.tzinfo) - was_online).days
DaysAgo(hours) == hours \div 24

\* the only_active test: a member is dropped if its status class is
\* UserStatusLongTimeAgo or UserStatusOffline, the status has a was_online
\* and that is more than 7 days ago
PassesActive(status) ==
    ~ /\ status.kind \in {"UserStatusLongTimeAgo", "UserStatusOffline"}
      /\ status.was_online # -1
      /\ DaysAgo(status.was_online) > 7

\* the four "if filters.get(...) ...: continue" tests
PassesFilters(f, info, status) ==
    /\ f.only_usernames => info.username
    /\ f.exclude_bots => ~info.is_bot
    /\ f.exclude_premium => ~info.is_premium
    /\ f.only_active => PassesActive(status)

\* no batch being walked
MembersIdle ==
    /\ mpc = "idle"
    /\ mfilters = [only_usernames |-> FALSE, exclude_bots |-> FALSE,
                   exclude_premium |-> FALSE, only_active |-> FALSE]
    /\ mlimit = 0
    /\ mbatch = 0
    /\ mpos = 1
    /\ scraped = <<>>
    /\ member_rows = {}

\* one turn of "for participant in participants": get_user_info, the
\* filters, _save_parsed_user (which logs and swallows a fault of the
\* store) and parsed_users.append(user_info)
MemberVisit ==
    /\ mpc = "loop"
    /\ mpos <= mbatch
    /\ Len(scraped) < mlimit
    /\ mpos' = mpos + 1
    /\ \E status \in Statuses, answer \in {"info", "None", "raised"},
          info \in UserInfos, store \in {"ok", "fault"} :
         IF answer = "info" /\ PassesFilters(mfilters, info, status)
         THEN /\ member_rows' = IF store = "ok"
                                THEN member_rows \cup {mpos}
                                ELSE member_rows
              /\ scraped' = Append(scraped, [id |-> mpos, status |-> status])
         ELSE UNCHANGED <<scraped, member_rows>>
    /\ UNCHANGED <<mpc, mfilters, mlimit, mbatch>>
    /\ UNCHANGED <<inviteVars, authVars, scrapeVars, saveVars, widgetVars,
                   accountVars, sharedVars>>

\* the loop ends, at the end of the batch or by "if parsed_count >= limit:
\* break"; the batch was the last one and parsed_users is returned
MembersReturn ==
    /\ mpc = "loop"
    /\ mpos > mbatch \/ Len(scraped) >= mlimit
    /\ mpc' = "returned"
    /\ UNCHANGED <<mfilters, mlimit, mbatch, mpos, scraped, member_rows>>
    /\ UNCHANGED <<inviteVars, authVars, scrapeVars, saveVars, widgetVars,
                   accountVars, sharedVars>>

-----------------------------------------------------------------------------
(* Inviter.stats: two invite_users calls on one Inviter *)

\* the counters a target's turn of the loop increments, in order: the
\* outcome of the target, then "error" if the INSERT raised and the except
\* handler of the loop body ran
Bumps == {<<"success">>, <<"error">>, <<"skipped">>,
          <<"success", "error">>, <<"error", "error">>,
          <<"skipped", "error">>}

\* self.stats[c] += 1 for every c of bumps
BumpAll(s, bumps) ==
    IF Len(bumps) = 1 THEN Bump(s, bumps[1])
    ELSE Bump(Bump(s, bumps[1]), bumps[2])

\* an Inviter after __init__: self.stats is the first dict, no call made
SharedIdle ==
    /\ dicts = <<ZeroStats>>
    /\ self_stats = 1
    /\ run_pc = [w \in Runs |-> "idle"]
    /\ run_targets = [w \in Runs |-> 0]
    /\ run_index = [w \in Runs |-> 1]
    /\ own_stats = [w \in Runs |-> ZeroStats]
    /\ run_returned = [w \in Runs |-> 0]

\* call w starts: "self.stats = {'success': 0, 'error': 0, 'skipped': 0}"
\* binds self.stats to a new dict; the call then awaits the connection
RunBegin(w) ==
    /\ run_pc[w] = "idle"
    /\ dicts' = Append(dicts, ZeroStats)
    /\ self_stats' = Len(dicts) + 1
    /\ run_pc' = [run_pc EXCEPT ![w] = "loop"]
    /\ UNCHANGED <<run_targets, run_index, own_stats, run_returned>>
    /\ UNCHANGED <<inviteVars, authVars, scrapeVars, saveVars, widgetVars,
                   accountVars, memberVars>>

\* call w handles its next target: every increment goes to the dict
\* self.stats refers to at that time; the awaits of the turn let the other
\* call run before the next turn
RunTarget(w) ==
    /\ run_pc[w] = "loop"
    /\ run_index[w] <= run_targets[w]
    /\ \E bumps \in Bumps :
         /\ dicts' = [dicts EXCEPT ![self_stats] = BumpAll(@, bumps)]
         /\ own_stats' = [own_stats EXCEPT ![w] = BumpAll(@, bumps)]
    /\ run_index' = [run_index EXCEPT ![w] = @ + 1]
    /\ UNCHANGED <<self_stats, run_pc, run_targets, run_returned>>
    /\ UNCHANGED <<inviteVars, authVars, scrapeVars, saveVars, widgetVars,
                   accountVars, memberVars>>

\* call w is through its list: "return self.stats" hands out the dict
\* self.stats refers to, not a copy
RunReturn(w) ==
    /\ run_pc[w] = "loop"
    /\ run_index[w] > run_targets[w]
    /\ run_returned' = [run_returned EXCEPT ![w] = self_stats]
    /\ run_pc' = [run_pc EXCEPT ![w] = "done"]
    /\ UNCHANGED <<dicts, self_stats, run_targets, run_index, own_stats>>
    /\ UNCHANGED <<inviteVars, authVars, scrapeVars, saveVars, widgetVars,
                   accountVars, memberVars>>

-----------------------------------------------------------------------------
(* InvitingWidget.stop_inviting and InvitingThread *)

\* no stop requested
WidgetIdle ==
    /\ stop_requested = FALSE
    /\ killed_at = "none"
    /\ progress_emits = 0
    /\ progress_logs = 0

\* the stop button while the thread runs: InvitingThread.stop() sets the
\* flag, which invite_users never reads; QThread.terminate() ends the
\* thread where it is, so neither the rest of invite_users nor its finally
\* clause nor finished_signal.emit(stats) runs; wait() returns
StopInviting ==
    /\ ipc \notin {"idle", "done", "terminated"}
    /\ stop_requested' = TRUE
    /\ killed_at' = ipc
    /\ ipc' = "terminated"
    /\ UNCHANGED <<user_list, index, stats, invites, iconnected, chat_entity,
                   responses, wait_time, slept, result, nUnresolved,
                   nWriteFail, nLost, scenarioB, returned>>
    /\ UNCHANGED <<progress_emits, progress_logs>>
    /\ UNCHANGED <<authVars, scrapeVars, saveVars, accountVars, memberVars,
                   sharedVars>>

-----------------------------------------------------------------------------
(* AccountManager and table accounts *)

\* the arguments of the calls
Phones == {"+79001234567", "+79999999999"}
ApiIds == {12345, 54321}
ApiHashes == {"test_hash_123"}
SessionStrings == {"None", "test_session"}

\* the rows of a table matched by "WHERE phone = ?"
AccountsWith(table, phone) == {i \in DOMAIN table : table[i].phone = phone}

\* AccountRow that leaves the session string out
AccountRowNoSession(id, phone, api_id, api_hash, session) ==
    [id |-> id, phone |-> phone, api_id |-> api_id, api_hash |-> api_hash,
     session_string |-> "None"]

\* the row of "INSERT INTO accounts (phone, api_id, api_hash,
\* session_string, created_at)" and the dict made of a row; created_at is
\* left out
AccountRow(id, phone, api_id, api_hash, session) ==
    [id |-> id, phone |-> phone, api_id |-> api_id, api_hash |-> api_hash,
     session_string |-> session]

\* get_account_by_phone: "SELECT * FROM accounts WHERE phone = ? LIMIT 1",
\* <<>> for None and <<row>> for the dict of the first row
GetAccountByPhone(table, phone) ==
    IF AccountsWith(table, phone) = {}
    THEN <<>>
    ELSE <<table[CHOOSE i \in AccountsWith(table, phone) :
                   \A j \in AccountsWith(table, phone) : i <= j]>>

\* Registered that never finds the phone
RegisteredNever(table, phone) == FALSE

\* "existing = self.get_account_by_phone(phone)" and "if existing"
Registered(table, phone) == GetAccountByPhone(table, phone) # <<>>

\* "DELETE FROM accounts WHERE phone = ?"
DeleteRows(table, phone) == SelectSeq(table, LAMBDA r : r.phone # phone)

\* what a call gave: returned id, dict, None, True or False, or raised
\* ValueError or the error of the store
Result(kind, id, row) == [kind |-> kind, id |-> id, row |-> row]

\* no call yet, the table empty
AccountsIdle ==
    /\ accounts = <<>>
    /\ last_rowid = 0
    /\ account_call = [op |-> "none"]
    /\ account_result = Result("none", 0, <<>>)
    /\ accounts_before = <<>>

\* add_account(phone, api_id, api_hash, session_string)
AddAccount ==
    /\ \E phone \in Phones, api_id \in ApiIds, api_hash \in ApiHashes,
          session \in SessionStrings, store \in {"ok", "select fault",
                                                 "insert fault"} :
         /\ account_call' = [op |-> "add", phone |-> phone,
                             api_id |-> api_id, api_hash |-> api_hash,
                             session_string |-> session]
         /\ CASE store = "select fault" ->
                   /\ account_result' = Result("raised", 0, <<>>)
                   /\ UNCHANGED <<accounts, last_rowid>>
              [] store # "select fault" /\ Registered(accounts, phone) ->
                   /\ account_result' = Result("ValueError", 0, <<>>)
                   /\ UNCHANGED <<accounts, last_rowid>>
              [] store = "insert fault" /\ ~Registered(accounts, phone) ->
                   /\ account_result' = Result("raised", 0, <<>>)
                   /\ UNCHANGED <<accounts, last_rowid>>
              [] store = "ok" /\ ~Registered(accounts, phone) ->
                   /\ last_rowid < MaxAccounts
                   /\ last_rowid' = last_rowid + 1
                   /\ accounts' = Append(accounts,
                                         AccountRow(last_rowid', phone, api_id,
                                                    api_hash, session))
                   /\ account_result' = Result("id", last_rowid', <<>>)
    /\ accounts_before' = accounts
    /\ UNCHANGED <<inviteVars, authVars, scrapeVars, saveVars, widgetVars,
                   memberVars,
                   sharedVars>>

\* delete_account(phone)
DeleteAccount ==
    /\ \E phone \in Phones, store \in {"ok", "select fault", "delete fault"} :
         /\ account_call' = [op |-> "delete", phone |-> phone]
         /\ CASE store = "select fault" ->
                   /\ account_result' = Result("raised", 0, <<>>)
                   /\ UNCHANGED accounts
              [] store # "select fault" /\ ~Registered(accounts, phone) ->
                   /\ account_result' = Result("False", 0, <<>>)
                   /\ UNCHANGED accounts
              [] store = "delete fault" /\ Registered(accounts, phone) ->
                   /\ account_result' = Result("raised", 0, <<>>)
                   /\ UNCHANGED accounts
              [] store = "ok" /\ Registered(accounts, phone) ->
                   /\ accounts' = DeleteRows(accounts, phone)
                   /\ account_result' = Result("True", 0, <<>>)
    /\ accounts_before' = accounts
    /\ UNCHANGED last_rowid
    /\ UNCHANGED <<inviteVars, authVars, scrapeVars, saveVars, widgetVars,
                   memberVars,
                   sharedVars>>

\* get_account_by_phone(phone), called by the user of the AccountManager
GetAccount ==
    /\ \E phone \in Phones, store \in {"ok", "select fault"} :
         /\ account_call' = [op |-> "get", phone |-> phone]
         /\ account_result' =
                IF store = "select fault" THEN Result("raised", 0, <<>>)
                ELSE IF Registered(accounts, phone)
                     THEN Result("dict", 0, GetAccountByPhone(accounts, phone))
                     ELSE Result("None", 0, <<>>)
    /\ accounts_before' = accounts
    /\ UNCHANGED <<accounts, last_rowid>>
    /\ UNCHANGED <<inviteVars, authVars, scrapeVars, saveVars, widgetVars,
                   memberVars,
                   sharedVars>>

\* the state outside the invite run, the login and the scrape run at rest
RestIdle ==
    SaveIdle /\ WidgetIdle /\ AccountsIdle /\ MembersIdle /\ SharedIdle

-----------------------------------------------------------------------------
(* AsyncManager.start_client, called by MainApp.authenticate_account *)

\* answers of client.send_code_request(phone)
CodeRequestResponses == {"ok", "PhoneNumberInvalid", "FloodWait", "Other"}

\* answers of client.sign_in(phone, code)
SignInResponses == {"ok", "SessionPasswordNeeded", "PhoneCodeInvalid",
                    "PhoneCodeExpired", "FloodWait", "Other"}

\* answers of client.sign_in(password=password)
PasswordResponses == {"ok", "PasswordHashInvalid", "FloodWait", "Other"}

\* what code_callback / password_callback hand back: "" when the operator
\* cancels the dialog
Typed == {"", "text"}

\* _save_session_string: UPDATE accounts SET session_string; an exception
\* of the store is logged and swallowed
SaveSessionString(current, new, stored) == IF stored THEN new ELSE current

\* start_client returns value; why records the branch that returned False
AuthReturn(value, why) ==
    /\ success' = value
    /\ fault' = why
    /\ apc' = "returned"

\* start_client: await client.connect()
AuthConnect ==
    /\ apc = "connect"
    /\ \E ok \in BOOLEAN :
         IF ok
         THEN /\ aconnected' = TRUE
              /\ apc' = "is_authorized"
              /\ UNCHANGED <<success, fault>>
         ELSE /\ AuthReturn("false", "Unexpected")
              /\ UNCHANGED aconnected
    /\ UNCHANGED <<session_string, session0, password_callback, authorized,
                   code_requests, code_wait, code_slept, outer_wait, outer_slept,
                   code_asked, password_asked, sign_ins, password_sign_ins,
                   session_writes>>
    /\ UNCHANGED <<inviteVars, scrapeVars, restVars>>

\* AuthIsAuthorized with the test ignored: an authorized session is sent
\* through the login like any other
AuthIsAuthorizedIgnored ==
    /\ apc = "is_authorized"
    /\ \E answer \in {"yes", "no", "fault"} :
         /\ answer = "yes" => session0 = "old"
         /\ IF answer = "fault"
            THEN /\ AuthReturn("false", "Unexpected")
                 /\ UNCHANGED authorized
            ELSE /\ authorized' = answer
                 /\ apc' = "send_code"
                 /\ UNCHANGED <<success, fault>>
    /\ UNCHANGED <<aconnected, session_string, session0, password_callback,
                   code_requests, code_wait, code_slept, outer_wait,
                   outer_slept, code_asked, password_asked, sign_ins,
                   password_sign_ins, session_writes>>
    /\ UNCHANGED <<inviteVars, scrapeVars, restVars>>

\* start_client: await client.is_user_authorized(); only a restored session
\* can be authorized
AuthIsAuthorized ==
    /\ apc = "is_authorized"
    /\ \E answer \in {"yes", "no", "fault"} :
         /\ answer = "yes" => session0 = "old"
         /\ IF answer = "fault"
            THEN /\ AuthReturn("false", "Unexpected")
                 /\ UNCHANGED authorized
            ELSE /\ authorized' = answer
                 /\ IF answer = "yes"
                    THEN AuthReturn("true", "none")
                    ELSE /\ apc' = "send_code"
                         /\ UNCHANGED <<success, fault>>
    /\ UNCHANGED <<aconnected, session_string, session0, password_callback,
                   code_requests, code_wait, code_slept, outer_wait, outer_slept,
                   code_asked, password_asked, sign_ins, password_sign_ins,
                   session_writes>>
    /\ UNCHANGED <<inviteVars, scrapeVars, restVars>>

\* AuthSendCode that goes on to ask for the code after a failed request
AuthSendCodeAsksAnyway ==
    /\ apc = "send_code"
    /\ \E resp \in CodeRequestResponses :
         /\ code_requests' = Append(code_requests, resp)
         /\ CASE resp = "PhoneNumberInvalid" ->
                   /\ AuthReturn("false", "PhoneNumberInvalid")
                   /\ UNCHANGED code_wait
              [] resp = "FloodWait" ->
                   /\ \E w \in Waits : code_wait' = w
                   /\ apc' = "code_sleep"
                   /\ UNCHANGED <<success, fault>>
              [] OTHER ->
                   /\ apc' = "ask_code"
                   /\ UNCHANGED <<success, fault, code_wait>>
    /\ UNCHANGED <<aconnected, session_string, session0, password_callback,
                   authorized, code_slept, outer_wait, outer_slept, code_asked,
                   password_asked, sign_ins, password_sign_ins,
                   session_writes>>
    /\ UNCHANGED <<inviteVars, scrapeVars, restVars>>

\* start_client: await client.send_code_request(phone) and its handlers
AuthSendCode ==
    /\ apc = "send_code"
    /\ \E resp \in CodeRequestResponses :
         /\ code_requests' = Append(code_requests, resp)
         /\ CASE resp = "ok" ->
                   /\ apc' = "ask_code"
                   /\ UNCHANGED <<success, fault, code_wait>>
              [] resp = "PhoneNumberInvalid" ->
                   /\ AuthReturn("false", "PhoneNumberInvalid")
                   /\ UNCHANGED code_wait
              [] resp = "FloodWait" ->
                   /\ \E w \in Waits : code_wait' = w
                   /\ apc' = "code_sleep"
                   /\ UNCHANGED <<success, fault>>
              [] OTHER ->
                   /\ AuthReturn("false", "Unexpected")
                   /\ UNCHANGED code_wait
    /\ UNCHANGED <<aconnected, session_string, session0, password_callback,
                   authorized, code_slept, outer_wait, outer_slept, code_asked,
                   password_asked, sign_ins, password_sign_ins,
                   session_writes>>
    /\ UNCHANGED <<inviteVars, scrapeVars, restVars>>

\* start_client: await asyncio.sleep(e.seconds) in the inner FloodWait handler
AuthCodeSleep ==
    /\ apc = "code_sleep"
    /\ code_slept' = code_slept + code_wait
    /\ apc' = "send_code_retry"
    /\ UNCHANGED <<aconnected, session_string, session0, password_callback,
                   authorized, code_requests, code_wait, outer_wait, outer_slept,
                   code_asked, password_asked, sign_ins, password_sign_ins,
                   session_writes, fault, success>>
    /\ UNCHANGED <<inviteVars, scrapeVars, restVars>>

\* AuthSendCodeRetry as a loop: a FloodWaitError of the repeated request
\* sleeps and requests the code again
AuthSendCodeRetryLoops ==
    /\ apc = "send_code_retry"
    /\ \E resp \in CodeRequestResponses :
         /\ code_requests' = Append(code_requests, resp)
         /\ CASE resp = "ok" ->
                   /\ apc' = "ask_code"
                   /\ UNCHANGED <<success, fault, code_wait>>
              [] resp = "FloodWait" ->
                   /\ \E w \in Waits : code_wait' = w
                   /\ apc' = "code_sleep"
                   /\ UNCHANGED <<success, fault>>
              [] OTHER ->
                   /\ AuthReturn("false", "Unexpected")
                   /\ UNCHANGED code_wait
    /\ UNCHANGED <<aconnected, session_string, session0, password_callback,
                   authorized, code_slept, outer_wait, outer_slept,
                   code_asked, password_asked, sign_ins, password_sign_ins,
                   session_writes>>
    /\ UNCHANGED <<inviteVars, scrapeVars, restVars>>

\* start_client: the second send_code_request, inside the except clause; what
\* it raises reaches the outer handlers
AuthSendCodeRetry ==
    /\ apc = "send_code_retry"
    /\ \E resp \in CodeRequestResponses :
         /\ code_requests' = Append(code_requests, resp)
         /\ CASE resp = "ok" ->
                   /\ apc' = "ask_code"
                   /\ UNCHANGED <<success, fault, outer_wait>>
              [] resp = "FloodWait" ->
                   /\ \E w \in Waits : outer_wait' = w
                   /\ apc' = "outer_sleep"
                   /\ UNCHANGED <<success, fault>>
              [] OTHER ->
                   /\ AuthReturn("false", "Unexpected")
                   /\ UNCHANGED outer_wait
    /\ UNCHANGED <<aconnected, session_string, session0, password_callback,
                   authorized, code_wait, code_slept, outer_slept, code_asked,
                   password_asked, sign_ins, password_sign_ins,
                   session_writes>>
    /\ UNCHANGED <<inviteVars, scrapeVars, restVars>>

\* AuthAskCode that asks the operator once more after an empty answer
AuthAskCodeAgain ==
    /\ apc = "ask_code"
    /\ code_asked' = code_asked + 1
    /\ \E code \in Typed :
         IF code = ""
         THEN IF code_asked = 0
              THEN apc' = "ask_code" /\ UNCHANGED <<success, fault>>
              ELSE AuthReturn("false", "NoCode")
         ELSE /\ apc' = "sign_in"
              /\ UNCHANGED <<success, fault>>
    /\ UNCHANGED <<aconnected, session_string, session0, password_callback,
                   authorized, code_requests, code_wait, code_slept,
                   outer_wait, outer_slept, password_asked, sign_ins, password_sign_ins,
                   session_writes>>
    /\ UNCHANGED <<inviteVars, scrapeVars, restVars>>

\* start_client: code = code_callback(phone); "if not code: return False"
AuthAskCode ==
    /\ apc = "ask_code"
    /\ code_asked' = code_asked + 1
    /\ \E code \in Typed :
         IF code = ""
         THEN AuthReturn("false", "NoCode")
         ELSE /\ apc' = "sign_in"
              /\ UNCHANGED <<success, fault>>
    /\ UNCHANGED <<aconnected, session_string, session0, password_callback,
                   authorized, code_requests, code_wait, code_slept,
                   outer_wait, outer_slept, password_asked, sign_ins, password_sign_ins,
                   session_writes>>
    /\ UNCHANGED <<inviteVars, scrapeVars, restVars>>

\* start_client: await client.sign_in(phone, code) and its handlers
AuthSignIn ==
    /\ apc = "sign_in"
    /\ \E resp \in SignInResponses :
         /\ sign_ins' = Append(sign_ins, resp)
         /\ CASE resp = "ok" ->
                   /\ \E stored \in BOOLEAN :
                        session_string' =
                            SaveSessionString(session_string, "new", stored)
                   /\ session_writes' = session_writes + 1
                   /\ AuthReturn("true", "none")
                   /\ UNCHANGED outer_wait
              [] resp = "SessionPasswordNeeded" ->
                   /\ IF password_callback
                      THEN /\ apc' = "ask_password"
                           /\ UNCHANGED <<success, fault>>
                      ELSE AuthReturn("false", "NoPasswordCallback")
                   /\ UNCHANGED <<session_string, session_writes, outer_wait>>
              [] resp = "PhoneCodeInvalid" ->
                   /\ AuthReturn("false", "PhoneCodeInvalid")
                   /\ UNCHANGED <<session_string, session_writes, outer_wait>>
              [] resp = "PhoneCodeExpired" ->
                   /\ AuthReturn("false", "PhoneCodeExpired")
                   /\ UNCHANGED <<session_string, session_writes, outer_wait>>
              [] resp = "FloodWait" ->
                   /\ \E w \in Waits : outer_wait' = w
                   /\ apc' = "outer_sleep"
                   /\ UNCHANGED <<success, fault, session_string,
                                  session_writes>>
              [] OTHER ->
                   /\ AuthReturn("false", "Unexpected")
                   /\ UNCHANGED <<session_string, session_writes, outer_wait>>
    /\ UNCHANGED <<aconnected, session0, password_callback, authorized,
                   code_requests, code_wait, code_slept, outer_slept,
                   code_asked,
                   password_asked, password_sign_ins>>
    /\ UNCHANGED <<inviteVars, scrapeVars, restVars>>

\* AuthAskPassword that takes an empty password for a successful login
AuthAskPasswordEmptyAccepted ==
    /\ apc = "ask_password"
    /\ password_asked' = password_asked + 1
    /\ \E password \in Typed :
         IF password = ""
         THEN AuthReturn("true", "NoPassword")
         ELSE /\ apc' = "sign_in_password"
              /\ UNCHANGED <<success, fault>>
    /\ UNCHANGED <<aconnected, session_string, session0, password_callback,
                   authorized, code_requests, code_wait, code_slept,
                   outer_wait, outer_slept, code_asked, sign_ins, password_sign_ins,
                   session_writes>>
    /\ UNCHANGED <<inviteVars, scrapeVars, restVars>>

\* start_client: password = password_callback(phone); empty: return False
AuthAskPassword ==
    /\ apc = "ask_password"
    /\ password_asked' = password_asked + 1
    /\ \E password \in Typed :
         IF password = ""
         THEN AuthReturn("false", "NoPassword")
         ELSE /\ apc' = "sign_in_password"
              /\ UNCHANGED <<success, fault>>
    /\ UNCHANGED <<aconnected, session_string, session0, password_callback,
                   authorized, code_requests, code_wait, code_slept,
                   outer_wait, outer_slept, code_asked, sign_ins, password_sign_ins,
                   session_writes>>
    /\ UNCHANGED <<inviteVars, scrapeVars, restVars>>

\* AuthSignInPassword that saves the session whatever the answer is
AuthSignInPasswordSavesAnyway ==
    /\ apc = "sign_in_password"
    /\ \E resp \in PasswordResponses :
         /\ password_sign_ins' = Append(password_sign_ins, resp)
         /\ \E stored \in BOOLEAN :
              session_string' =
                  SaveSessionString(session_string, "new", stored)
         /\ session_writes' = session_writes + 1
         /\ IF resp = "ok"
            THEN AuthReturn("true", "none")
            ELSE AuthReturn("false", "PasswordSignIn")
    /\ UNCHANGED <<aconnected, session0, password_callback, authorized,
                   code_requests, code_wait, code_slept, outer_wait, outer_slept,
                   code_asked, password_asked, sign_ins>>
    /\ UNCHANGED <<inviteVars, scrapeVars, restVars>>

\* start_client: await client.sign_in(password=password); every exception
\* returns False
AuthSignInPassword ==
    /\ apc = "sign_in_password"
    /\ \E resp \in PasswordResponses :
         /\ password_sign_ins' = Append(password_sign_ins, resp)
         /\ IF resp = "ok"
            THEN /\ \E stored \in BOOLEAN :
                      session_string' =
                          SaveSessionString(session_string, "new", stored)
                 /\ session_writes' = session_writes + 1
                 /\ AuthReturn("true", "none")
            ELSE /\ AuthReturn("false", "PasswordSignIn")
                 /\ UNCHANGED <<session_string, session_writes>>
    /\ UNCHANGED <<aconnected, session0, password_callback, authorized,
                   code_requests, code_wait, code_slept, outer_wait, outer_slept,
                   code_asked, password_asked, sign_ins>>
    /\ UNCHANGED <<inviteVars, scrapeVars, restVars>>

\* start_client: the outer "except FloodWaitError": sleep, return False
AuthOuterSleep ==
    /\ apc = "outer_sleep"
    /\ outer_slept' = outer_slept + outer_wait
    /\ AuthReturn("false", "FloodWait")
    /\ UNCHANGED <<aconnected, session_string, session0, password_callback,
                   authorized, code_requests, code_wait, code_slept, outer_wait,
                   code_asked, password_asked, sign_ins, password_sign_ins,
                   session_writes>>
    /\ UNCHANGED <<inviteVars, scrapeVars, restVars>>

\* authenticate_account: await self.async_manager.disconnect(client) after
\* start_client returned
AuthDisconnect ==
    /\ apc = "returned"
    /\ aconnected' = Disconnect(aconnected)
    /\ apc' = "done"
    /\ UNCHANGED <<session_string, session0, password_callback, authorized,
                   code_requests, code_wait, code_slept, outer_wait, outer_slept,
                   code_asked, password_asked, sign_ins, password_sign_ins,
                   session_writes, fault, success>>
    /\ UNCHANGED <<inviteVars, scrapeVars, restVars>>

\* no invite run
InviteIdle ==
    /\ ipc = "idle"
    /\ user_list = <<>>
    /\ index = 1
    /\ stats = ZeroStats
    /\ invites = <<>>
    /\ iconnected = FALSE
    /\ chat_entity = "none"
    /\ responses = <<>>
    /\ wait_time = 0
    /\ slept = 0
    /\ result = "none"
    /\ nUnresolved = 0
    /\ nWriteFail = 0
    /\ nLost = 0
    /\ scenarioB = 0
    /\ returned = "none"

\* authenticate_account after create_client: the account row has no session
\* or a stored one (re-authorization), start_client is about to run
InitAuth ==
    /\ apc = "connect"
    /\ aconnected = FALSE
    /\ session0 \in {"none", "old"}
    /\ session_string = session0
    /\ password_callback \in BOOLEAN
    /\ authorized = "none"
    /\ code_requests = <<>>
    /\ code_wait = 0
    /\ code_slept = 0
    /\ outer_wait = 0
    /\ outer_slept = 0
    /\ code_asked = 0
    /\ password_asked = 0
    /\ sign_ins = <<>>
    /\ password_sign_ins = <<>>
    /\ session_writes = 0
    /\ fault = "none"
    /\ success = "pending"
    /\ InviteIdle
    /\ ScrapeIdle
    /\ RestIdle

NextAuth ==
    \/ AuthConnect
    \/ AuthIsAuthorized
    \/ AuthSendCode
    \/ AuthCodeSleep
    \/ AuthSendCodeRetry
    \/ AuthAskCode
    \/ AuthSignIn
    \/ AuthAskPassword
    \/ AuthSignInPassword
    \/ AuthOuterSleep
    \/ AuthDisconnect

SpecAuth == InitAuth /\ [][NextAuth]_vars

-----------------------------------------------------------------------------
(* Specifications of the invite run *)

\* the login is not running
AuthIdle ==
    /\ apc = "idle"
    /\ aconnected = FALSE
    /\ session_string = "none"
    /\ session0 = "none"
    /\ password_callback = FALSE
    /\ authorized = "none"
    /\ code_requests = <<>>
    /\ code_wait = 0
    /\ code_slept = 0
    /\ outer_wait = 0
    /\ outer_slept = 0
    /\ code_asked = 0
    /\ password_asked = 0
    /\ sign_ins = <<>>
    /\ password_sign_ins = <<>>
    /\ session_writes = 0
    /\ fault = "none"
    /\ success = "pending"

\* target lists of at most MaxTargets identifiers
TargetLists ==
    UNION {[1..n -> {"Username", "NumericId"}] : n \in 0..MaxTargets}

\* an Inviter after __init__, about to run invite_users(phone, chat, list)
InitInvite ==
    /\ ipc = "begin"
    /\ user_list \in TargetLists
    /\ index = 1
    /\ stats = ZeroStats
    /\ invites = <<>>
    /\ iconnected = FALSE
    /\ chat_entity = "none"
    /\ responses = <<>>
    /\ wait_time = 0
    /\ slept = 0
    /\ result = "none"
    /\ nUnresolved = 0
    /\ nWriteFail = 0
    /\ nLost = 0
    /\ scenarioB = 0
    /\ returned = "none"
    /\ AuthIdle
    /\ ScrapeIdle
    /\ RestIdle

NextInvite ==
    \/ InviteBegin
    \/ InviteConnect
    \/ InviteCheckAuth
    \/ InviteGetChat
    \/ GetUserId
    \/ GetInputUser
    \/ AddUser
    \/ FloodSleep
    \/ AddUserRetry
    \/ ExceptResolve
    \/ ItemDelay
    \/ InviteReturn

SpecInvite == InitInvite /\ [][NextInvite]_vars

-----------------------------------------------------------------------------
(* Specification of the scrape run *)

\* a Parser about to run parse_chat_participants(phone, chat_link, limit)
InitScrape ==
    /\ spc = "begin"
    /\ limit \in Limits
    /\ members \in ChatSizes
    /\ filters \in BOOLEAN
    /\ offset = 0
    /\ parsed_count = 0
    /\ parsed_users = 0
    /\ save_calls = 0
    /\ batch = 0
    /\ requested = 0
    /\ page_requests = 0
    /\ info_failed = FALSE
    /\ stop = "none"
    /\ fetched = 0
    /\ sconnected = FALSE
    /\ fetch_offset = -1
    /\ batch_fetches = 0
    /\ batch_throttles = 0
    /\ batch_waited = 0
    /\ batch_slept = 0
    /\ scrape_wait = 0
    /\ throttles = 0
    /\ InviteIdle
    /\ AuthIdle
    /\ RestIdle

NextScrape ==
    \/ ScrapeBegin
    \/ ScrapeCheckAuth
    \/ ScrapeResolveChat
    \/ ScrapeFetch
    \/ ScrapeFloodSleep
    \/ ScrapeProcess

SpecScrape == InitScrape /\ [][NextScrape]_vars

\* the run is a coroutine of a running event loop: whenever the call it
\* awaits has answered, it goes on
SpecScrapeFair == SpecScrape /\ WF_vars(NextScrape)

-----------------------------------------------------------------------------
(* Specification of the runs that borrow a client: one invite run or one
   scrape run *)

InitRuns == InitInvite \/ InitScrape

NextRuns == NextInvite \/ NextScrape

SpecRuns == InitRuns /\ [][NextRuns]_vars

-----------------------------------------------------------------------------
(* Specifications of the saves of scraped members *)

InitSave ==
    /\ SaveIdle
    /\ MembersIdle
    /\ SharedIdle
    /\ WidgetIdle
    /\ AccountsIdle
    /\ InviteIdle
    /\ AuthIdle
    /\ ScrapeIdle

\* scrape runs one after the other: a call of _save_parsed_user starts
\* while no other run is inside one
NextSaveSequential ==
    \E w \in Runs :
        /\ \A v \in Runs \ {w} : save_pc[v] = "idle"
        /\ (SaveCheck(w) \/ SaveWrite(w))

SpecSaveSequential == InitSave /\ [][NextSaveSequential]_vars

\* two scrape runs at the same time, each in a thread or process of its
\* own: the statements of their _save_parsed_user calls interleave
NextSaveConcurrent == \E w \in Runs : SaveCheck(w) \/ SaveWrite(w)

SpecSaveConcurrent == InitSave /\ [][NextSaveConcurrent]_vars

-----------------------------------------------------------------------------
(* Specification of the invite run with the stop button *)

NextInviteStop == NextInvite \/ StopInviting

SpecInviteStop == InitInvite /\ [][NextInviteStop]_vars

-----------------------------------------------------------------------------
(* Specification of the AccountManager *)

InitAccounts ==
    /\ AccountsIdle
    /\ MembersIdle
    /\ SharedIdle
    /\ SaveIdle
    /\ WidgetIdle
    /\ InviteIdle
    /\ AuthIdle
    /\ ScrapeIdle

NextAccounts ==
    \/ AddAccount
    \/ DeleteAccount
    \/ GetAccount

SpecAccounts == InitAccounts /\ [][NextAccounts]_vars

-----------------------------------------------------------------------------
(* Specification of the loop over the participants of a batch *)

\* a batch of at most MaxMembers participants, the table empty
InitMembers ==
    /\ mpc = "loop"
    /\ mfilters \in Filters
    /\ mlimit \in 1..MaxMembers
    /\ mbatch \in 0..MaxMembers
    /\ mpos = 1
    /\ scraped = <<>>
    /\ member_rows = {}
    /\ SharedIdle
    /\ SaveIdle
    /\ WidgetIdle
    /\ AccountsIdle
    /\ InviteIdle
    /\ AuthIdle
    /\ ScrapeIdle

NextMembers == MemberVisit \/ MembersReturn

SpecMembers == InitMembers /\ [][NextMembers]_vars

-----------------------------------------------------------------------------
(* Specification of two invite_users calls on one Inviter *)

\* two calls with lists of at most MaxRunTargets targets, none started
InitShared ==
    /\ dicts = <<ZeroStats>>
    /\ self_stats = 1
    /\ run_pc = [w \in Runs |-> "idle"]
    /\ run_targets \in [Runs -> 0..MaxRunTargets]
    /\ run_index = [w \in Runs |-> 1]
    /\ own_stats = [w \in Runs |-> ZeroStats]
    /\ run_returned = [w \in Runs |-> 0]
    /\ SaveIdle
    /\ WidgetIdle
    /\ AccountsIdle
    /\ MembersIdle
    /\ InviteIdle
    /\ AuthIdle
    /\ ScrapeIdle

\* the calls run as coroutines of one event loop, or one after the other
NextShared == \E w \in Runs : RunBegin(w) \/ RunTarget(w) \/ RunReturn(w)

SpecShared == InitShared /\ [][NextShared]_vars

-----------------------------------------------------------------------------
(* Properties of the invite run (SpecInvite) *)

\* invite_users went through its loop and returned
Completed == ipc = "done" /\ chat_entity = "resolved"

\* success + error + skipped
Total(s) == s.success + s.error + s.skipped

\* rows of table invites written for target i
RowsOf(i) == {k \in DOMAIN invites : invites[k].user_id = i}

Orig_C2 == Completed => Total(returned) = Len(user_list)

\* the run followed scenario B: target 1 added, target 2 reported as already
\* a participant, target 3 unresolved, no store write failed
RanScenarioB == Completed /\ Len(user_list) = 3 /\ scenarioB = 3

Thm_C4 ==
    /\ Len(responses) <= 2
    /\ ipc = "retry" => responses = <<"FloodWait">>
    /\ ipc \in {"retry", "flood_sleep"} => wait_time \in Waits
    /\ ipc = "retry" => slept = wait_time
    /\ Len(responses) = 2 =>
          /\ responses[1] = "FloodWait"
          /\ slept = wait_time
          /\ wait_time \in Waits
    /\ (responses # <<>> /\ responses[1] = "FloodWait"
            /\ ipc \notin {"flood_sleep", "retry"}) => Len(responses) = 2
    /\ (Len(responses) = 2 /\ responses[2] # "ok") => result = "error"

\* the repeated add call was throttled again and the target became an error
Wit_C4 ==
    /\ responses = <<"FloodWait", "FloodWait">>
    /\ result = "error"
    /\ slept = wait_time
    /\ slept > 0

\* the step of GetUserId in which the identifier of target index fails
\* resolution
UnresolvedStep == ipc = "resolve" /\ nUnresolved' = nUnresolved + 1

AfterAddToNext ==
    /\ index' = index + 1
    /\ ipc' = "resolve"
    /\ responses' # <<>>

\* C22 as stated: the run sleeps the delay between a target that reached
\* the add step and the next target, whatever the outcome of the target
\* and of the INSERT of its row.
Orig_C22 == [][AfterAddToNext => ipc = "delay"]_vars

\* C23: the targets are handled one at a time in the order of the list: the
\* rows of invites are in the order of their targets, no row belongs to a
\* target after the current one, and while the current target is resolved
\* or added every earlier target is counted and the current one has no row.
Thm_C23 ==
    /\ \A j, k \in DOMAIN invites :
          j < k => invites[j].user_id < invites[k].user_id
    /\ \A k \in DOMAIN invites : invites[k].user_id <= index
    /\ ipc \in {"resolve", "input_user", "add", "flood_sleep", "retry"} =>
          /\ RowsOf(index) = {}
          /\ Total(stats) >= index - 1

\* three targets with three outcomes, their rows in the order of the list
Wit_C23 ==
    /\ Completed
    /\ invites = <<InviteRow(1, "error"), InviteRow(2, "skipped"),
                   InviteRow(3, "success")>>

\* C30: for a target whose identifier fails resolution no add call is made,
\* and the run goes to the next target, or to its end, without sleeping
\* the delay.
Thm_C30 ==
    [][UnresolvedStep =>
          /\ responses' = <<>>
          /\ index' = index + 1
          /\ ipc' = (IF index < Len(user_list) THEN "resolve" ELSE "finish")]_vars

\* a completed run of two targets that both failed resolution: no add call,
\* no row
Wit_C30 ==
    /\ Completed
    /\ Len(user_list) = 2
    /\ nUnresolved = 2
    /\ responses = <<>>
    /\ stats.skipped = 2
    /\ invites = <<>>

\* the answers of an add call that concern the target alone
Transient == {"UserPrivacyRestricted", "UserAlreadyParticipant",
              "ChatNotModified"}

\* where invite_users is after the result of a target is counted: the
\* delay, the next target, the end of the loop, or the except handler of a
\* failed INSERT
Continues == {"delay", "resolve", "finish", "except_resolve"}

\* C26: when the first add call of a target reports privacy-restricted,
\* already-a-participant or chat-not-modified, the target is counted as
\* skipped, its row, if the INSERT succeeds, has a skipped status, no
\* second add call is made and the run goes on.
Thm_C26 ==
    [][\A r \in Transient :
          (ipc = "add" /\ responses' = <<r>>) =>
             /\ result' = "skipped"
             /\ stats'.skipped = stats.skipped + 1
             /\ stats'.success = stats.success
             /\ ipc' \in Continues
             /\ nWriteFail' = nWriteFail =>
                   invites' = Append(invites, [user_id |-> index,
                                               status |-> "skipped"])]_vars

\* the first target reported privacy-restricted: skipped after one add
\* call, its row written, the run sleeping the delay
Wit_C26 ==
    /\ ipc = "delay"
    /\ index = 1
    /\ responses = <<"UserPrivacyRestricted">>
    /\ result = "skipped"
    /\ stats = [success |-> 0, error |-> 0, skipped |-> 1]
    /\ invites = <<[user_id |-> 1, status |-> "skipped"]>>

\* C27 as stated: when the add call repeated after a throttle wait reports
\* privacy-restricted, already-a-participant or chat-not-modified, the
\* target is classified skipped, as after a first call.
Orig_C27 ==
    (Len(responses) = 2 /\ responses[2] \in Transient) => result = "skipped"

\* the answers of an add call that make the target an error
ErrorAnswers == {"ChatAdminRequired", "PeerIdInvalid", "Other"}

\* C28: when an add call reports admin-required or invalid-peer or raises
\* an unclassified fault, or the add step fails before its call, the target
\* is counted as an error and the run goes on; a run whose chat resolved
\* returns its statistics after the last target of the list.
Thm_C28 ==
    [][/\ \A r \in ErrorAnswers :
            (ipc \in {"add", "retry"} /\ responses' = Append(responses, r))
               => /\ result' = "error"
                  /\ stats'.error > stats.error
                  /\ stats'.success = stats.success
                  /\ stats'.skipped = stats.skipped
                  /\ ipc' \in Continues
       /\ (ipc = "input_user" /\ ipc' # "add")
               => /\ result' = "error"
                  /\ stats'.error > stats.error
                  /\ ipc' \in Continues
       /\ (ipc' = "done" /\ chat_entity' = "resolved")
               => /\ index' = Len(user_list) + 1
                  /\ returned' = stats']_vars

\* the first of several targets got admin-required: an error, its row
\* written, the run sleeping the delay before the next target
Wit_C28 ==
    /\ ipc = "delay"
    /\ index = 1
    /\ Len(user_list) = 3
    /\ responses = <<"ChatAdminRequired">>
    /\ result = "error"
    /\ stats = [success |-> 0, error |-> 1, skipped |-> 0]
    /\ invites = <<[user_id |-> 1, status |-> "error"]>>

\* C24 as stated: the progress observer is notified once after each target,
\* so a completed run has made as many notifications as it had targets,
\* be it by the progress signal or by the progress line of the log.
Orig_C24 ==
    Completed =>
        \/ progress_emits = Len(user_list)
        \/ progress_logs = Len(user_list)

\* a step in which the lookup of the target's entity in _invite_user fails
LookupFailedStep == ipc = "input_user" /\ ipc' # "add"

\* C31: every target that cannot be resolved, be it by _get_user_id or by
\* the entity lookup of _invite_user, is counted as skipped and not as an
\* error, and no add call is made for it.  (Not so for the entity lookup:
\* a numeric id is never refused by _get_user_id, and an id whose lookup
\* fails is counted as an error.)
Orig_C31 ==
    [][(UnresolvedStep \/ LookupFailedStep) =>
          /\ stats'.skipped = stats.skipped + 1
          /\ stats'.error = stats.error
          /\ responses' = <<>>]_vars

\* C31, amended: a username that _get_user_id cannot resolve is counted as
\* skipped and not as an error; a numeric id always passes _get_user_id,
\* and a target whose entity lookup in _invite_user fails is counted as an
\* error and not as skipped (once if the store took the row); in both cases
\* no add call has been made for the target.
Thm_C31 ==
    [][/\ UnresolvedStep =>
             /\ user_list[index] = "Username"
             /\ stats'.skipped = stats.skipped + 1
             /\ stats'.error = stats.error
             /\ responses' = <<>>
       /\ (ipc = "resolve" /\ user_list[index] = "NumericId") =>
             /\ ipc' = "input_user"
             /\ stats' = stats
       /\ LookupFailedStep =>
             /\ result' = "error"
             /\ stats'.skipped = stats.skipped
             /\ stats'.success = stats.success
             /\ stats'.error > stats.error
             /\ nWriteFail' = nWriteFail => stats'.error = stats.error + 1
             /\ responses' = <<>>]_vars

\* a numeric id whose entity lookup failed: an error row and no add call
Wit_C31 ==
    /\ ipc = "delay"
    /\ index = 1
    /\ user_list[1] = "NumericId"
    /\ responses = <<>>
    /\ result = "error"
    /\ stats = [success |-> 0, error |-> 1, skipped |-> 0]
    /\ invites = <<InviteRow(1, "error")>>

-----------------------------------------------------------------------------
(* Properties of the login (SpecAuth) *)

\* start_client has returned to authenticate_account
Returned == apc \in {"returned", "done"}

\* C5: a throttled code request is repeated exactly once after a sleep of
\* the mandated wait; if the second request is throttled or fails,
\* start_client returns False, with no third request and without invoking
\* the code provider.
Thm_C5 ==
    /\ Len(code_requests) <= 2
    /\ apc = "send_code_retry" =>
          /\ code_requests = <<"FloodWait">>
          /\ code_wait \in Waits
          /\ code_slept = code_wait
    /\ Len(code_requests) = 2 =>
          /\ code_requests[1] = "FloodWait"
          /\ code_slept = code_wait
    /\ (Returned /\ code_requests # <<>> /\ code_requests[1] = "FloodWait")
          => Len(code_requests) = 2
    /\ (Len(code_requests) = 2 /\ code_requests[2] # "ok") =>
          /\ code_asked = 0
          /\ password_asked = 0
          /\ sign_ins = <<>>
          /\ apc \in {"outer_sleep", "returned", "done"}
          /\ Returned => success = "false"

\* both code requests were throttled and start_client returned False
Wit_C5 ==
    /\ Returned
    /\ code_requests = <<"FloodWait", "FloodWait">>
    /\ success = "false"
    /\ code_slept > 0

\* C7: on a client that reports the session authorized, start_client returns
\* True without a code request, without invoking the code or the password
\* provider and without writing the session to the store.
Thm_C7 ==
    authorized = "yes" =>
        /\ Returned
        /\ success = "true"
        /\ code_requests = <<>>
        /\ code_asked = 0
        /\ password_asked = 0
        /\ sign_ins = <<>>
        /\ password_sign_ins = <<>>
        /\ session_writes = 0
        /\ session_string = session0

\* start_client returned on an authorized session
Wit_C7 == authorized = "yes" /\ apc = "done" /\ success = "true"

\* C8: whenever start_client returns True after submitting a code or a
\* password, the account row holds the new session string.
Orig_C8 ==
    (Returned /\ success = "true" /\ sign_ins # <<>>)
        => session_string = "new"

ExpectedFailures == {"PhoneNumberInvalid", "NoCode", "PhoneCodeInvalid",
                     "PhoneCodeExpired", "NoPassword"}

\* C10: start_client returns False for the expected failures, and an
\* unexpected error of the protocol client reaches the caller as a fault
\* instead of a returned False.
Orig_C10 ==
    Returned =>
        /\ fault \in ExpectedFailures => success = "false"
        /\ fault = "Unexpected" => success = "raised"

\* C29: once start_client has returned, a code submission or a password
\* submission that was answered with a throttling signal has been followed
\* by a sleep of the mandated wait and by exactly one more submission of
\* the same kind.  (Not so: a throttled code submission is slept on and
\* never repeated, a throttled password submission is neither slept on nor
\* repeated.)
Orig_C29 ==
    Returned =>
        /\ (sign_ins # <<>> /\ sign_ins[1] = "FloodWait") =>
              /\ Len(sign_ins) = 2
              /\ outer_slept >= outer_wait
        /\ (password_sign_ins # <<>> /\ password_sign_ins[1] = "FloodWait") =>
              /\ Len(password_sign_ins) = 2
              /\ outer_slept > 0

\* the last answer of a sequence of answers is "ok"
EndsOk(answers) == answers # <<>> /\ answers[Len(answers)] = "ok"

\* C32: when start_client has returned False, for whatever reason, no
\* _save_session_string call was made and the session_string of the phone's
\* row is what it was when the login started; a call is made only after
\* the code submission or the password submission succeeded, once.
Thm_C32 ==
    /\ (Returned /\ success = "false") =>
          /\ session_writes = 0
          /\ session_string = session0
    /\ session_writes > 0 =>
          /\ session_writes = 1
          /\ EndsOk(sign_ins) \/ EndsOk(password_sign_ins)
          /\ Returned /\ success = "true"
    /\ session_string # session0 => session_writes = 1

\* a login refused at the password submission, the stored session kept
Wit_C32 ==
    /\ apc = "done"
    /\ success = "false"
    /\ fault = "PasswordSignIn"
    /\ sign_ins = <<"SessionPasswordNeeded">>
    /\ password_sign_ins = <<"PasswordHashInvalid">>
    /\ session_writes = 0
    /\ session_string = session0

\* C33: one start_client call asks the code provider at most once, submits
\* the code at most once, asks the password provider and submits the
\* password at most once; after an empty code no submission was made, and
\* after an invalid or expired code start_client has returned False with
\* that one submission as its last protocol call.
Thm_C33 ==
    /\ code_asked <= 1
    /\ Len(sign_ins) <= code_asked
    /\ password_asked <= 1
    /\ Len(password_sign_ins) <= password_asked
    /\ (Returned /\ fault = "NoCode") =>
          /\ success = "false"
          /\ code_asked = 1
          /\ sign_ins = <<>>
          /\ password_asked = 0
          /\ password_sign_ins = <<>>
    /\ \A f \in {"PhoneCodeInvalid", "PhoneCodeExpired"} :
          (sign_ins = <<f>>) =>
              /\ Returned
              /\ success = "false"
              /\ fault = f
              /\ password_asked = 0
              /\ password_sign_ins = <<>>
              /\ session_writes = 0
    /\ (Returned /\ fault = "PhoneNumberInvalid") =>
          /\ success = "false"
          /\ code_asked = 0
          /\ sign_ins = <<>>

\* a login ended by an expired code: one question, one submission
Wit_C33 ==
    /\ apc = "done"
    /\ success = "false"
    /\ fault = "PhoneCodeExpired"
    /\ code_asked = 1
    /\ sign_ins = <<"PhoneCodeExpired">>
    /\ password_sign_ins = <<>>

\* the code submission was answered with SessionPasswordNeededError
SecondFactor == sign_ins = <<"SessionPasswordNeeded">>

\* C34: after the code submission reported a second-factor requirement,
\* start_client returns True only if a password_callback was passed, it was
\* asked, and the password submission it led to succeeded; without a
\* password_callback, or with an empty password, start_client returns False
\* and sign_in(password=...) has not been called.
Thm_C34 ==
    /\ (SecondFactor /\ Returned /\ success = "true") =>
          /\ password_callback
          /\ password_asked = 1
          /\ password_sign_ins = <<"ok">>
    /\ (SecondFactor /\ ~password_callback /\ apc # "sign_in") =>
          /\ Returned
          /\ success = "false"
          /\ fault = "NoPasswordCallback"
          /\ password_asked = 0
          /\ password_sign_ins = <<>>
    /\ (Returned /\ fault = "NoPassword") =>
          /\ SecondFactor
          /\ success = "false"
          /\ password_asked = 1
          /\ password_sign_ins = <<>>
    /\ password_sign_ins # <<>> => SecondFactor /\ password_callback
    /\ password_asked > 0 => SecondFactor /\ password_callback

\* a login completed by the password after a second-factor requirement
Wit_C34 ==
    /\ apc = "done"
    /\ success = "true"
    /\ password_callback
    /\ sign_ins = <<"SessionPasswordNeeded">>
    /\ password_asked = 1
    /\ password_sign_ins = <<"ok">>

\* C36: in every start_client call the code provider is asked only after a
\* code request was answered without an exception, the code is submitted
\* only after the provider was asked, the password provider is asked only
\* after the code submission raised SessionPasswordNeededError, the
\* password is submitted only after that provider was asked, and
\* _save_session_string is called only after a submission succeeded.
Thm_C36 ==
    /\ (code_asked > 0 \/ apc = "ask_code") => EndsOk(code_requests)
    /\ (sign_ins # <<>> \/ apc = "sign_in") => code_asked = 1
    /\ (password_asked > 0 \/ apc = "ask_password") =>
          /\ sign_ins = <<"SessionPasswordNeeded">>
          /\ password_sign_ins = <<>> \/ password_asked = 1
    /\ (password_sign_ins # <<>> \/ apc = "sign_in_password") =>
          password_asked = 1
    /\ session_writes > 0 =>
          \/ sign_ins = <<"ok">> /\ password_asked = 0
          \/ password_sign_ins = <<"ok">>

\* a login through all the steps: a throttled and a granted code request,
\* the code, the second-factor requirement, the password, the session saved
Wit_C36 ==
    /\ apc = "done"
    /\ success = "true"
    /\ code_requests = <<"FloodWait", "ok">>
    /\ code_asked = 1
    /\ sign_ins = <<"SessionPasswordNeeded">>
    /\ password_asked = 1
    /\ password_sign_ins = <<"ok">>
    /\ session_writes = 1

-----------------------------------------------------------------------------
(* Properties of the scrape run (SpecScrape) *)

Thm_C11 ==
    /\ parsed_users <= limit
    /\ save_calls <= limit

\* a run over several pages, throttled and filtered, that returned exactly
\* limit members of a chat that has more of them
Wit_C11 ==
    /\ spc = "done"
    /\ limit > BatchSize
    /\ members > limit
    /\ filters
    /\ throttles > 0
    /\ parsed_users = limit
    /\ save_calls = limit
    /\ offset > limit

\* C14 as stated: after a batch is processed the run requests the next page
\* exactly when the batch returned as many members as were requested for
\* it and fewer than limit members are accepted so far.
Orig_C14 ==
    [][spc = "process" =>
         (spc' = "fetch" <=> (batch = requested /\ parsed_count' < limit))]_vars

\* the run reached the paging loop and every page request was answered at
\* once with the members of the page
Answered == stop \in {"empty", "short", "limit"} /\ throttles = 0

\* C15: a run without filters over a chat of fewer members than the limit
\* and than the page size, every profile of which is fetched and every
\* page request of which is answered, returns exactly the members of the
\* chat after exactly one page request.
Thm_C15 ==
    (/\ spc = "done"
     /\ Answered
     /\ ~filters
     /\ ~info_failed
     /\ members < limit
     /\ members < BatchSize)
        => /\ parsed_users = members
           /\ page_requests = 1

\* scenario C: limit 5, three members, three entries, one page request
Wit_C15 ==
    /\ spc = "done"
    /\ Answered
    /\ ~filters
    /\ ~info_failed
    /\ limit = 5
    /\ members = 3
    /\ parsed_users = 3
    /\ page_requests = 1
    /\ offset = 3

\* C25: the offset of a page request is the number of members the earlier
\* requests returned: a request repeated after a throttle wait has the
\* offset of the throttled one, the offset moves on only by the size of a
\* returned batch, and no member before the offset is left out.
Thm_C25 ==
    /\ fetched <= members
    /\ spc = "process" =>
          /\ fetch_offset = offset
          /\ fetched = offset + batch
    /\ spc # "process" => fetched = offset
    /\ spc = "flood_sleep" => fetch_offset = offset
    /\ (spc = "fetch" /\ batch_fetches > 0) => fetch_offset = offset

\* the second page, returned at offset 100 after the request for it was
\* throttled and repeated
Wit_C25 ==
    /\ spc = "process"
    /\ batch_throttles > 0
    /\ batch_slept = batch_waited
    /\ fetch_offset = BatchSize
    /\ offset = BatchSize
    /\ fetched = BatchSize + batch
    /\ batch > 0

\* a step of the paging loop keeps the offsets of the answered page
\* requests growing: a page is answered at the offset the loop is at, and
\* after a non-empty page the loop is at a larger offset
OffsetGrows ==
    /\ offset' >= offset
    /\ spc' = "process" =>
          /\ batch' > 0
          /\ fetch_offset' = offset'
    /\ spc = "process" =>
          /\ offset' = offset + batch
          /\ offset' > fetch_offset

\* C39: a scrape run over a chat of finitely many members, throttled
\* finitely often, comes to its end with its client disconnected and stays
\* there; on the way the offset of every answered non-empty page request is
\* larger than that of the one before.
Thm_C39 ==
    /\ <>[](spc = "done" /\ sconnected = FALSE)
    /\ [][OffsetGrows]_vars

\* a run that ended after three page requests, one of them throttled, the
\* second page short
Wit_C39 ==
    /\ spc = "done"
    /\ sconnected = FALSE
    /\ stop = "short"
    /\ throttles = 1
    /\ page_requests = 3
    /\ offset > BatchSize
    /\ fetched = members

-----------------------------------------------------------------------------
(* Properties of the runs that borrow a client (SpecRuns) *)

\* C18: when an invite run or a scrape run has returned, its client is
\* disconnected, whatever the path it returned by.
Thm_C18 ==
    /\ ipc = "done" => ~iconnected
    /\ spc = "done" => ~sconnected

\* a scrape run that connected, fetched a page, and returned on a fault of
\* the next page request, its client disconnected
Wit_C18 ==
    /\ spc = "done"
    /\ stop = "fault"
    /\ page_requests > 1
    /\ offset > 0
    /\ ~sconnected

-----------------------------------------------------------------------------
(* Properties of the saves of scraped members (SpecSaveSequential,
   SpecSaveConcurrent) *)

\* table parsed_users has at most one row for each user id and chat id
OneRowPerKey ==
    \A u \in UserIds, c \in ChatIds :
        Cardinality(RowsWith(parsed_table, u, c)) <= 1

\* the row of the last save that wrote carries its profile and timestamp
Refreshed ==
    last_save.kind \in {"insert", "update"} =>
        \E i \in DOMAIN parsed_table :
            parsed_table[i] = [user_id |-> last_save.user_id,
                               chat_id |-> last_save.chat_id,
                               profile |-> last_save.profile,
                               parsed_at |-> last_save.at]

\* C12: when scrape runs follow one another, table parsed_users never has
\* two rows for one user id and chat id, and a save of a member that is
\* already in the table leaves the member's one row with the new username,
\* names, phone and timestamp.
Thm_C12 == OneRowPerKey /\ Refreshed

\* a member saved again with another profile: one row, with the new profile
\* and the time of the second save
Wit_C12 ==
    /\ last_save.kind = "update"
    /\ last_save.found # {}
    /\ last_save.profile \notin last_save.found
    /\ Cardinality(RowsWith(parsed_table, last_save.user_id,
                            last_save.chat_id)) = 1
    /\ \A i \in RowsWith(parsed_table, last_save.user_id, last_save.chat_id) :
          /\ parsed_table[i].profile = last_save.profile
          /\ parsed_table[i].parsed_at = last_save.at

\* C13 as stated: however the existence checks and the writes of two
\* concurrent scrape runs interleave, no user id and chat id gets two rows.
Orig_C13 ==
    \A i, j \in DOMAIN parsed_table :
        (/\ parsed_table[i].user_id = parsed_table[j].user_id
         /\ parsed_table[i].chat_id = parsed_table[j].chat_id) => i = j

-----------------------------------------------------------------------------
(* Properties of the invite run with the stop button (SpecInviteStop) *)

\* C16 as stated: once the stop button has been handled, the invite run has
\* returned, at the end of a target's iteration, with its client
\* disconnected and the statistics gathered so far as its result.
Orig_C16 ==
    stop_requested =>
        /\ ~iconnected
        /\ killed_at \in {"none", "delay", "finish"}
        /\ ipc = "done"
        /\ returned = stats

\* where the invite run is, or was when its thread was terminated
Position == IF ipc = "terminated" THEN killed_at ELSE ipc

\* the targets whose iteration of the loop has written its row
Processed == IF Position = "delay" THEN index ELSE index - 1

\* C17 as stated: at every point of an invite run, stopped or not, the
\* three counters add up to the number of targets processed so far, which
\* is never more than the number of targets.
Orig_C17 ==
    /\ Total(stats) <= Len(user_list)
    /\ chat_entity = "resolved" => Total(stats) = Processed

-----------------------------------------------------------------------------
(* Properties of the AccountManager (SpecAccounts) *)

\* C19: whatever add_account and delete_account calls were made, table
\* accounts has at most one row for each phone.
Thm_C19 ==
    \A phone \in Phones : Cardinality(AccountsWith(accounts, phone)) <= 1

\* a phone added again after rows were added and deleted, refused while its
\* one row is in the table
Wit_C19 ==
    /\ account_call.op = "add"
    /\ account_result.kind = "ValueError"
    /\ last_rowid >= 2
    /\ Len(accounts) = 1
    /\ Cardinality(AccountsWith(accounts, account_call.phone)) = 1

\* the store answered the last call
Answering == account_result.kind # "raised"

\* C20: add_account of a registered phone raises ValueError and leaves the
\* table as it was; after add_account of a new phone, get_account_by_phone
\* gives the phone, API id, API hash and session string that were
\* registered; get_account_by_phone of a phone that is not registered
\* returns None.
Thm_C20 ==
    /\ (/\ account_call.op = "add"
        /\ Registered(accounts_before, account_call.phone))
          => /\ accounts = accounts_before
             /\ Answering => account_result.kind = "ValueError"
    /\ (/\ account_call.op = "add"
        /\ ~Registered(accounts_before, account_call.phone)
        /\ Answering)
          => /\ account_result.kind = "id"
             /\ GetAccountByPhone(accounts, account_call.phone) =
                   <<[id |-> account_result.id,
                      phone |-> account_call.phone,
                      api_id |-> account_call.api_id,
                      api_hash |-> account_call.api_hash,
                      session_string |-> account_call.session_string]>>
    /\ (/\ account_call.op = "get"
        /\ Answering)
          => IF Registered(accounts, account_call.phone)
             THEN /\ account_result.kind = "dict"
                  /\ account_result.row =
                        GetAccountByPhone(accounts, account_call.phone)
             ELSE account_result.kind = "None"

\* the test's duplicate: the phone of the one account added a second time
Wit_C20 ==
    /\ account_call.op = "add"
    /\ account_call.phone = "+79001234567"
    /\ account_result.kind = "ValueError"
    /\ accounts = accounts_before
    /\ accounts = <<[id |-> 1, phone |-> "+79001234567", api_id |-> 12345,
                     api_hash |-> "test_hash_123",
                     session_string |-> "test_session"]>>

-----------------------------------------------------------------------------
(* Properties of the loop over the participants of a batch (SpecMembers) *)

\* last seen more than 7 days ago, as far as the status tells
Stale(status) ==
    \/ status.kind \in {"UserStatusLastMonth", "UserStatusLongTimeAgo"}
    \/ status.kind = "UserStatusOffline" /\ status.was_online > 7 * 24

\* C35: with only_active set, no member of the returned list, and no
\* member with a row, has a status that shows a last-seen older than 7
\* days or is UserStatusLastMonth or UserStatusLongTimeAgo.
Orig_C35 ==
    (mpc = "returned" /\ mfilters.only_active) =>
        \A k \in DOMAIN scraped : ~Stale(scraped[k].status)

\* C38: every member of the list the run returns has its row in
\* parsed_users when the run returns.
Orig_C38 ==
    mpc = "returned" => \A k \in DOMAIN scraped : scraped[k].id \in member_rows

-----------------------------------------------------------------------------
(* Properties of two invite_users calls on one Inviter (SpecShared) *)

\* C37: the statistics a call returned are the counts of the increments
\* made for its own targets, whatever the other call on the same Inviter
\* does before, while or after it.
Orig_C37 ==
    \A w \in Runs :
        run_pc[w] = "done" => dicts[run_returned[w]] = own_stats[w]

=============================================================================
